---- MODULE Spec2Model ----
(***************************************************************************)
(* Patient mock API: the patient CRUD subsystem of the three server        *)
(* generations found in the repository.                                    *)
(*   "legacy" : /api/patients        (src/index.js, first program)         *)
(*   "admin"  : /api/v1/patients with the name+DOB duplicate check         *)
(*              (src/index.js, second program)                             *)
(*   "spec"   : /api/v1/patients with caller-supplied keys                 *)
(*              (src/unnamed/part_001, second program)                     *)
(* A request handler is one action: the store statements of one request    *)
(* run back to back, requests are served one after the other.  Where        *)
(* requests overlap, a request is in flight and each of its store           *)
(* statements, with the callback that follows it, is one action.            *)
(***************************************************************************)
EXTENDS Integers, Sequences, FiniteSets, TLC

\* ------------------------------------------------------------------ bounds
MaxTime == 2        \* the clock runs over 1..MaxTime
MaxUuid == 2        \* randomUUID() is called at most MaxUuid times
AuditMaxRows == 1   \* rows in the table when the audit fields are checked

VARIABLES
    version,    \* which server generation is running
    patients,   \* the patients table: its rows in rowid order
    now,        \* the wall clock read by new Date()
    issued,     \* how many UUIDs randomUUID() has handed out
    resp,       \* the last response sent: [op, status]
    deleted,    \* history: the keys DELETE has removed so far
    sent,       \* the last request that read the store, with the body answered
    flight      \* the requests in flight: where each one is, what it has read

vars == <<version, patients, now, issued, resp, deleted, sent, flight>>

\* --------------------------------------------------------------- JS values
\* A JSON/JS value is a tagged record; a request body is a function from the
\* names of the properties it carries to their values.
JUndef == [t |-> "undefined"]
JNull == [t |-> "null"]
JStr(s) == [t |-> "string", v |-> s]
JBool(b) == [t |-> "boolean", v |-> b]
JObj(o) == [t |-> "object", v |-> o]

\* a string whose characters matter is given character by character
JText(cs) == [t |-> "string", cs |-> cs]
IsText(j) == j.t = "string" /\ "cs" \in DOMAIN j

Truthy(j) ==
    CASE j.t = "undefined" -> FALSE
      [] j.t = "null" -> FALSE
      [] j.t = "string" -> IF "cs" \in DOMAIN j THEN j.cs # <<>> ELSE j.v # ""
      [] j.t = "boolean" -> j.v
      [] OTHER -> TRUE

\* body.f (undefined when the property is absent)
Get(o, f) == IF f \in DOMAIN o THEN o[f] ELSE JUndef

\* a || b
OrElse(a, b) == IF Truthy(a) THEN a ELSE b

\* sqlite3 binds undefined as NULL
Bind(j) == IF j.t = "undefined" THEN JNull ELSE j

\* JSON.stringify / JSON.parse of a column value
Stringify(j) == [t |-> "json", v |-> j]
Parse(x) == x.v

\* x ? JSON.stringify(x) : null
JsonCol(j) == IF Truthy(j) THEN Stringify(j) ELSE JNull

\* ------------------------------------------------------------------ store
KeyOf(row) == IF "id" \in DOMAIN row THEN row.id ELSE row.patientKey

RowIndex(store, key) == {i \in 1..Len(store) : KeyOf(store[i]) = key}

\* db.get('SELECT ... WHERE id = ?'): the first matching row, or none
HasRow(store, key) == RowIndex(store, key) # {}
RowOf(store, key) == store[CHOOSE i \in RowIndex(store, key) : \A j \in RowIndex(store, key) : i <= j]

StoredKeys(store) == {KeyOf(store[i]) : i \in 1..Len(store)}

\* randomUUID(): the n-th call returns a value no earlier call returned
Uuid(n) == <<"uuid", n>>

\* ------------------------------------------------------- store statements
\* firstName TEXT NOT NULL, lastName TEXT NOT NULL (CREATE TABLE patients)
NotNullCols == {"firstName", "lastName"}

ViolatesNotNull(row) ==
    \E c \in NotNullCols \cap DOMAIN row : row[c].t = "null"

\* INSERT INTO patients ...: fails on a PRIMARY KEY or NOT NULL violation
InsertFails(store, row) == HasRow(store, KeyOf(row)) \/ ViolatesNotNull(row)
InsertRow(store, row) == Append(store, row)

\* UPDATE patients SET <cols> WHERE id = ?
Assign(row, cols) == [c \in DOMAIN row |-> IF c \in DOMAIN cols THEN cols[c] ELSE row[c]]
UpdateFails(store, key, cols) == HasRow(store, key) /\ ViolatesNotNull(cols)
UpdateChanges(store, key) == Cardinality(RowIndex(store, key))
UpdateRow(store, key, cols) ==
    [i \in 1..Len(store) |-> IF KeyOf(store[i]) = key THEN Assign(store[i], cols) ELSE store[i]]

\* DELETE FROM patients WHERE id = ?
RECURSIVE DeleteRow(_, _)
DeleteRow(store, key) ==
    IF store = <<>> THEN <<>>
    ELSE IF KeyOf(Head(store)) = key THEN DeleteRow(Tail(store), key)
    ELSE <<Head(store)>> \o DeleteRow(Tail(store), key)

\* -------------------------------------------------------------- middleware
\* requireJson: POST, PUT and PATCH need Content-Type: application/json
requireJson(method, isJson) == method \in {"POST", "PUT", "PATCH"} => isJson

\* a caller identity that never reads the header
Caller_Anonymous(xUser) == "system"

\* req.get('X-User') || 'system'
Caller(xUser) == OrElse(xUser, JStr("system")).v

\* /^\S+@\S+\.\S+$/.test(email), on the addresses the model sends
EmailOk(s) == s \in {"ann@example.com", "bob@example.com"}

\* the same test on a string given character by character
EmailTextOk(cs) ==
    /\ \A i \in 1..Len(cs) : cs[i] # " "
    /\ \E i, j \in 1..Len(cs) :
            1 < i /\ i + 1 < j /\ j < Len(cs) /\ cs[i] = "@" /\ cs[j] = "."

EmailTest(j) ==
    j.t = "string" /\ (IF IsText(j) THEN EmailTextOk(j.cs) ELSE EmailOk(j.v))

ALLOWED_GENDER == {"MALE", "FEMALE", "OTHER"}
ALLOWED_STATUS == {"ACTIVE", "DISCHARGED", "PENDING"}

\* allowedG.includes(v): strict equality against the listed strings
Includes(allowed, j) == j.t = "string" /\ j.v \in allowed

\* if (body.email && !regex.test(body.email)) / if (body.gender && !includes)
FormatErrors(body) ==
    \/ (Truthy(Get(body, "email")) /\ ~EmailTest(Get(body, "email")))
    \/ (Truthy(Get(body, "gender")) /\ ~Includes(ALLOWED_GENDER, Get(body, "gender")))

\* body.isPinned ? 1 : 0
PinBit(j) == IF Truthy(j) THEN 1 ELSE 0

\* ------------------------------------------------- admin: POST /api/v1/patients
AdminCreateInvalid(body) ==
    \/ \E f \in {"firstName", "lastName", "insurance"} : ~Truthy(Get(body, f))
    \/ FormatErrors(body)

AdminCreateRow(body, id, xUser, t) ==
    [ id |-> id,
      firstName |-> Bind(Get(body, "firstName")),
      lastName |-> Bind(Get(body, "lastName")),
      dateOfBirth |-> OrElse(Get(body, "dateOfBirth"), JNull),
      gender |-> OrElse(Get(body, "gender"), JNull),
      email |-> OrElse(Get(body, "email"), JNull),
      payer |-> OrElse(Get(body, "payer"), JNull),
      insurance |-> JsonCol(Get(body, "insurance")),
      status |-> OrElse(Get(body, "status"), JStr("ACTIVE")),
      isPinned |-> PinBit(Get(body, "isPinned")),
      metadata |-> Stringify([createdAt |-> t, createdBy |-> Caller(xUser),
                              updatedAt |-> t, updatedBy |-> Caller(xUser)]),
      team |-> JsonCol(Get(body, "team")) ]

\* SELECT id FROM patients WHERE firstName = ? AND lastName = ? AND dateOfBirth = ?
\* (an SQL comparison with NULL is never true)
SqlEq(a, b) == a.t # "null" /\ b.t # "null" /\ a = b
NameDobMatch(store, row) ==
    \E i \in 1..Len(store) :
        /\ SqlEq(store[i].firstName, row.firstName)
        /\ SqlEq(store[i].lastName, row.lastName)
        /\ SqlEq(store[i].dateOfBirth, row.dateOfBirth)

\* the whole handler: the store afterwards and the status answered
AdminCreateOutcome(store, body, id, xUser, t, isJson) ==
    LET row == AdminCreateRow(body, id, xUser, t) IN
    IF ~requireJson("POST", isJson) THEN [store |-> store, status |-> 415]
    ELSE IF AdminCreateInvalid(body) THEN [store |-> store, status |-> 400]
    ELSE IF NameDobMatch(store, row) THEN [store |-> store, status |-> 409]
    ELSE IF InsertFails(store, row) THEN [store |-> store, status |-> 500]
    ELSE [store |-> InsertRow(store, row), status |-> 201]

\* --------------------------------------------- admin: PUT /api/v1/patients/:id
AdminPutInvalid(body) ==
    \/ \E f \in {"firstName", "lastName", "insurance"} : ~Truthy(Get(body, f))
    \/ FormatErrors(body)

\* (body.metadata && body.metadata.createdAt) || updatedAt
\* a timestamp of 0 and a user "" stand for the falsy values a client can send
BodyCreatedAt(body, updatedAt) ==
    LET m == Get(body, "metadata") IN
    IF Truthy(m) /\ "createdAt" \in DOMAIN m.v /\ m.v.createdAt # 0
    THEN m.v.createdAt ELSE updatedAt

\* (body.metadata && body.metadata.createdBy) || updatedBy
BodyCreatedBy(body, updatedBy) ==
    LET m == Get(body, "metadata") IN
    IF Truthy(m) /\ "createdBy" \in DOMAIN m.v /\ m.v.createdBy # ""
    THEN m.v.createdBy ELSE updatedBy

PutMetadata(body, xUser, t) ==
    Stringify([updatedAt |-> t, updatedBy |-> Caller(xUser),
               createdAt |-> BodyCreatedAt(body, t),
               createdBy |-> BodyCreatedBy(body, Caller(xUser))])

AdminPutCols(body, xUser, t) ==
    [ firstName |-> Bind(Get(body, "firstName")),
      lastName |-> Bind(Get(body, "lastName")),
      dateOfBirth |-> OrElse(Get(body, "dateOfBirth"), JNull),
      gender |-> OrElse(Get(body, "gender"), JNull),
      email |-> OrElse(Get(body, "email"), JNull),
      payer |-> OrElse(Get(body, "payer"), JNull),
      insurance |-> JsonCol(Get(body, "insurance")),
      status |-> OrElse(Get(body, "status"), JStr("ACTIVE")),
      isPinned |-> PinBit(Get(body, "isPinned")),
      metadata |-> PutMetadata(body, xUser, t),
      team |-> JsonCol(Get(body, "team")) ]

\* a PUT that runs its UPDATE before it validates the body
PutOutcome_WriteBeforeValidate(store, id, invalid, cols, isJson) ==
    IF ~requireJson("PUT", isJson) THEN [store |-> store, status |-> 415]
    ELSE IF invalid THEN [store |-> UpdateRow(store, id, cols), status |-> 400]
    ELSE IF UpdateChanges(store, id) = 0 THEN [store |-> store, status |-> 404]
    ELSE [store |-> UpdateRow(store, id, cols), status |-> 200]

\* validation, UPDATE, this.changes === 0 -> 404, re-read
PutOutcome(store, id, invalid, cols, isJson) ==
    IF ~requireJson("PUT", isJson) THEN [store |-> store, status |-> 415]
    ELSE IF invalid THEN [store |-> store, status |-> 400]
    ELSE IF UpdateFails(store, id, cols) THEN [store |-> store, status |-> 500]
    ELSE IF UpdateChanges(store, id) = 0 THEN [store |-> store, status |-> 404]
    ELSE [store |-> UpdateRow(store, id, cols), status |-> 200]

AdminPutOutcome(store, id, body, xUser, t, isJson) ==
    PutOutcome(store, id, AdminPutInvalid(body), AdminPutCols(body, xUser, t), isJson)

\* ------------------------------------------- PATCH /api/v1/patients/:id
\* the columns a PATCH body can set, one "if (body.f !== undefined) add(...)" each
PatchPlain == {"firstName", "lastName", "dateOfBirth", "email", "payer"}
PatchEnum == {"gender", "status"}
PatchJson == {"insurance", "team"}
PatchFields == PatchPlain \cup PatchEnum \cup PatchJson \cup {"isPinned"}

\* the value add(column, value) is called with
PatchValue(f, j) ==
    IF f \in PatchJson THEN JsonCol(j)
    ELSE IF f = "isPinned" THEN PinBit(j)
    ELSE j

\* fields/params after the chain of ifs
PatchCols(body) ==
    [f \in PatchFields \cap DOMAIN body |-> PatchValue(f, body[f])]

\* a PATCH that only checks that some column was collected
PatchInvalid_EmptyOnly(body) == PatchFields \cap DOMAIN body = {}

\* the two early returns inside the chain, and the empty check after it
PatchInvalid(body) ==
    \/ ("gender" \in DOMAIN body /\ ~Includes(ALLOWED_GENDER, body.gender))
    \/ ("status" \in DOMAIN body /\ ~Includes(ALLOWED_STATUS, body.status))
    \/ PatchFields \cap DOMAIN body = {}

\* existingMeta = mRow.metadata ? JSON.parse(mRow.metadata) : {}
ExistingMeta(row) == IF row.metadata.t = "null" THEN <<>> ELSE Parse(row.metadata)

\* a merge that restamps the creation fields
MergedMeta_Restamp(existingMeta, xUser, t) ==
    [ createdAt |-> t, createdBy |-> Caller(xUser), updatedAt |-> t, updatedBy |-> Caller(xUser) ]

\* existingMeta.createdAt || updatedAt, existingMeta.createdBy || updatedBy
MergedMeta(existingMeta, xUser, t) ==
    [ createdAt |-> IF "createdAt" \in DOMAIN existingMeta /\ existingMeta.createdAt # 0
                    THEN existingMeta.createdAt ELSE t,
      createdBy |-> IF "createdBy" \in DOMAIN existingMeta /\ existingMeta.createdBy # ""
                    THEN existingMeta.createdBy ELSE Caller(xUser),
      updatedAt |-> t,
      updatedBy |-> Caller(xUser) ]

\* add('metadata', JSON.stringify(mergedMeta)) after the body's columns
PatchUpdate(row, body, xUser, t) ==
    LET cols == PatchCols(body) IN
    [c \in DOMAIN cols \cup {"metadata"} |->
        IF c = "metadata" THEN Stringify(MergedMeta(ExistingMeta(row), xUser, t)) ELSE cols[c]]

PatchOutcome(store, id, body, xUser, t, isJson) ==
    IF ~requireJson("PATCH", isJson) THEN [store |-> store, status |-> 415]
    ELSE IF PatchInvalid(body) THEN [store |-> store, status |-> 400]
    ELSE IF ~HasRow(store, id) THEN [store |-> store, status |-> 404]
    ELSE LET cols == PatchUpdate(RowOf(store, id), body, xUser, t) IN
         IF UpdateFails(store, id, cols) THEN [store |-> store, status |-> 500]
         ELSE IF UpdateChanges(store, id) = 0 THEN [store |-> store, status |-> 404]
         ELSE [store |-> UpdateRow(store, id, cols), status |-> 200]

\* ----------------------------------------- PUT /api/v1/patients/:id/pin
\* a pin that leaves the metadata as it was
PinMeta_Untouched(existingMeta, t) == existingMeta

\* mergedMeta = { ...existingMeta, updatedAt }
PinMeta(existingMeta, t) ==
    [f \in DOMAIN existingMeta \cup {"updatedAt"} |->
        IF f = "updatedAt" THEN t ELSE existingMeta[f]]

PinOutcome(store, id, body, t, isJson) ==
    IF ~requireJson("PUT", isJson) THEN [store |-> store, status |-> 415]
    ELSE IF "isPinned" \notin DOMAIN body THEN [store |-> store, status |-> 400]
    ELSE IF ~HasRow(store, id) THEN [store |-> store, status |-> 404]
    ELSE LET cols == [isPinned |-> PinBit(body.isPinned),
                      metadata |-> Stringify(PinMeta(ExistingMeta(RowOf(store, id)), t))] IN
         [store |-> UpdateRow(store, id, cols), status |-> 200]

\* ----------------------------------------- DELETE /api/v1/patients/:id
DeleteOutcome(store, id) ==
    IF UpdateChanges(store, id) = 0 THEN [store |-> store, status |-> 404]
    ELSE [store |-> DeleteRow(store, id), status |-> 204]

\* ------------------------------------------- spec: POST /api/v1/patients
\* res.json(rowToPatientSearch(...)): this server defines no rowToPatientSearch,
\* so the callback throws a ReferenceError after the statement has run; the
\* request gets no response, the process ends, and database.db keeps the
\* write for the process started next
NoResponse == 0
SpecAnswer(status) == IF status \in {200, 201} THEN NoResponse ELSE status

SpecCreateInvalid(body) ==
    \/ (~Truthy(Get(body, "patientId")) /\ ~Truthy(Get(body, "id")))
    \/ ~Truthy(Get(body, "firstName"))
    \/ ~Truthy(Get(body, "lastName"))
    \/ (~Truthy(Get(body, "payer")) /\ ~Truthy(Get(body, "insurance")))
    \/ FormatErrors(body)

\* body.patientId || body.id || randomUUID()
SpecTakesUuid(body) == ~Truthy(Get(body, "patientId")) /\ ~Truthy(Get(body, "id"))
SpecCreateId(body, uuid) ==
    IF Truthy(Get(body, "patientId")) THEN body.patientId.v
    ELSE IF Truthy(Get(body, "id")) THEN body.id.v
    ELSE uuid

\* body.dob || body.dateOfBirth || null
SpecDob(body) == OrElse(Get(body, "dob"), OrElse(Get(body, "dateOfBirth"), JNull))

PayerIsObject(body) == Get(body, "payer").t = "object"

\* an object literal whose undefined properties JSON.stringify leaves out
Defined(o) == [f \in {g \in DOMAIN o : o[g].t # "undefined"} |-> o[f]]

\* if (body.payer && typeof body.payer === 'object' && !insuranceObj)
PayerConverted(body) == PayerIsObject(body) /\ ~Truthy(Get(body, "insurance"))

\* an insurance column that takes body.insurance only
SpecInsuranceObj_InsuranceOnly(body) == Get(body, "insurance")

SpecInsuranceObj(body) ==
    IF PayerConverted(body)
    THEN JObj(Defined([providerName |-> Get(body.payer.v, "planName"),
                       policyNumber |-> Get(body.payer.v, "planId"),
                       groupNumber |-> Get(body.payer.v, "groupNumber")]))
    ELSE Get(body, "insurance")

\* body.payer && body.payer.payerTypeName ? body.payer.payerTypeName : (body.payer || null)
SpecPayerType(body) ==
    IF PayerConverted(body) THEN Get(body.payer.v, "payerTypeName")
    ELSE IF PayerIsObject(body) /\ Truthy(Get(body.payer.v, "payerTypeName"))
    THEN body.payer.v.payerTypeName
    ELSE OrElse(Get(body, "payer"), JNull)

\* sqlite3 binds an object through its toString()
BindText(j) == IF j.t = "object" THEN JStr("[object Object]") ELSE Bind(j)

\* body.team ? (typeof body.team === 'string' ? { name: body.team } : body.team) : null
SpecTeam(body) ==
    LET team == Get(body, "team") IN
    IF ~Truthy(team) THEN JNull
    ELSE IF team.t = "string" THEN Stringify(JObj([name |-> team]))
    ELSE Stringify(team)

SpecCreateRow(body, id, xUser, t) ==
    [ id |-> id,
      firstName |-> Bind(Get(body, "firstName")),
      lastName |-> Bind(Get(body, "lastName")),
      dateOfBirth |-> SpecDob(body),
      gender |-> OrElse(Get(body, "gender"), JNull),
      email |-> OrElse(Get(body, "email"), JNull),
      payer |-> BindText(SpecPayerType(body)),
      insurance |-> JsonCol(SpecInsuranceObj(body)),
      status |-> OrElse(Get(body, "status"), JStr("ACTIVE")),
      isPinned |-> PinBit(Get(body, "isPinned")),
      metadata |-> Stringify([createdAt |-> t, createdBy |-> Caller(xUser),
                              updatedAt |-> t, updatedBy |-> Caller(xUser)]),
      team |-> SpecTeam(body) ]

\* a create that writes over the row stored under its key
SpecCreateOutcome_Replace(store, body, uuid, xUser, t, isJson) ==
    LET row == SpecCreateRow(body, SpecCreateId(body, uuid), xUser, t) IN
    IF ~requireJson("POST", isJson) THEN [store |-> store, status |-> 415]
    ELSE IF SpecCreateInvalid(body) THEN [store |-> store, status |-> 400]
    ELSE IF HasRow(store, KeyOf(row))
         THEN [store |-> UpdateRow(store, KeyOf(row), row), status |-> SpecAnswer(201)]
    ELSE [store |-> InsertRow(store, row), status |-> SpecAnswer(201)]

\* SELECT id FROM patients WHERE id = ? -> 409, else INSERT
SpecCreateOutcome(store, body, uuid, xUser, t, isJson) ==
    LET row == SpecCreateRow(body, SpecCreateId(body, uuid), xUser, t) IN
    IF ~requireJson("POST", isJson) THEN [store |-> store, status |-> 415]
    ELSE IF SpecCreateInvalid(body) THEN [store |-> store, status |-> 400]
    ELSE IF HasRow(store, KeyOf(row)) THEN [store |-> store, status |-> 409]
    ELSE IF InsertFails(store, row) THEN [store |-> store, status |-> 500]
    ELSE [store |-> InsertRow(store, row), status |-> SpecAnswer(201)]

\* -------------------------------------------- spec: PUT /api/v1/patients/:id
SpecPutInvalid(body) ==
    \/ ~Truthy(Get(body, "firstName")) \/ ~Truthy(Get(body, "lastName"))
    \/ (~Truthy(Get(body, "payer")) /\ ~Truthy(Get(body, "insurance")))
    \/ FormatErrors(body)

SpecPutCols(body, xUser, t) ==
    [ firstName |-> Bind(Get(body, "firstName")),
      lastName |-> Bind(Get(body, "lastName")),
      dateOfBirth |-> SpecDob(body),
      gender |-> OrElse(Get(body, "gender"), JNull),
      email |-> OrElse(Get(body, "email"), JNull),
      payer |-> BindText(SpecPayerType(body)),
      insurance |-> JsonCol(SpecInsuranceObj(body)),
      status |-> OrElse(Get(body, "status"), JStr("ACTIVE")),
      isPinned |-> PinBit(Get(body, "isPinned")),
      metadata |-> PutMetadata(body, xUser, t),
      team |-> SpecTeam(body) ]

SpecPutOutcome(store, id, body, xUser, t, isJson) ==
    LET out == PutOutcome(store, id, SpecPutInvalid(body), SpecPutCols(body, xUser, t), isJson) IN
    [store |-> out.store, status |-> SpecAnswer(out.status)]

\* ------------------------------------------- spec: the list-item projection
\* safeParse(val): undefined for an empty column, JSON.parse(val) otherwise,
\* the text itself when it is no JSON
safeParse(col) ==
    IF ~Truthy(col) THEN JUndef
    ELSE IF col.t = "json" THEN Parse(col)
    ELSE col

\* j.f: a property of an object; a string or a boolean has none of these names
Prop(j, f) == IF j.t = "object" THEN Get(j.v, f) ELSE JUndef

\* pat.team ? { teamId: pat.team.teamId || pat.team.id || "team-1", name: pat.team.name } : null
\* (res.json leaves an undefined name out)
ListItemTeam(row) ==
    LET team == safeParse(row.team) IN
    IF ~Truthy(team) THEN JNull
    ELSE JObj(Defined([teamId |-> OrElse(Prop(team, "teamId"), OrElse(Prop(team, "id"), JStr("team-1"))),
                       name |-> Prop(team, "name")]))

\* a projection that takes the insurance only when it names a provider
ListItemPayer_NeedsProviderName(row) ==
    LET insurance == safeParse(row.insurance)
        payer == OrElse(row.payer, JUndef) IN
    IF Truthy(Prop(insurance, "providerName"))
    THEN JObj([payerId |-> OrElse(Prop(insurance, "payerId"), JStr("payer-unknown")),
               payerType |-> OrElse(Prop(insurance, "payerType"), JStr("Insurance")),
               displayName |-> OrElse(Prop(insurance, "displayName"), Prop(insurance, "providerName"))])
    ELSE IF Truthy(payer)
    THEN JObj([payerId |-> JStr("payer-legacy"), payerType |-> JStr("Insurance"), displayName |-> payer])
    ELSE JNull

\* pat.payer = row.payer || undefined; pat.insurance = safeParse(row.insurance);
\* the insurance object first, the payer column second, null otherwise
ListItemPayer(row) ==
    LET insurance == safeParse(row.insurance)
        payer == OrElse(row.payer, JUndef) IN
    IF Truthy(insurance) /\ insurance.t = "object"
    THEN JObj([payerId |-> OrElse(Prop(insurance, "payerId"), JStr("payer-unknown")),
               payerType |-> OrElse(Prop(insurance, "payerType"), JStr("Insurance")),
               displayName |-> OrElse(Prop(insurance, "displayName"),
                                      OrElse(Prop(insurance, "providerName"), JStr("Unknown")))])
    ELSE IF Truthy(payer)
    THEN JObj([payerId |-> JStr("payer-legacy"), payerType |-> JStr("Insurance"), displayName |-> payer])
    ELSE JNull

\* the team and primaryPayer of rowToPatientListItem(row)
rowToPatientListItem(row) ==
    [patientKey |-> row.id, team |-> ListItemTeam(row), primaryPayer |-> ListItemPayer(row)]

\* ------------------------------------------------ legacy: /api/patients
LegacyInvalid(body) ==
    \E f \in {"firstName", "lastName", "patientId", "teamName", "dateOfBirth"} :
        ~Truthy(Get(body, f))

\* metadata = { createdAt, createdBy: 'api' }
LegacyCreateRow(body, patientKey, t) ==
    [ patientKey |-> patientKey,
      patientId |-> Bind(Get(body, "patientId")),
      shipToId |-> OrElse(Get(body, "shipToId"), JStr("DEFAULT")),
      firstName |-> Bind(Get(body, "firstName")),
      lastName |-> Bind(Get(body, "lastName")),
      dateOfBirth |-> Bind(Get(body, "dateOfBirth")),
      teamName |-> Bind(Get(body, "teamName")),
      primaryPayer |-> JsonCol(Get(body, "primaryPayer")),
      metadata |-> Stringify([createdAt |-> t, createdBy |-> "api"]) ]

LegacyCreateOutcome(store, body, uuid, t, isJson) ==
    LET row == LegacyCreateRow(body, uuid, t) IN
    IF ~requireJson("POST", isJson) THEN [store |-> store, status |-> 415]
    ELSE IF LegacyInvalid(body) THEN [store |-> store, status |-> 400]
    ELSE IF HasRow(store, KeyOf(row)) THEN [store |-> store, status |-> 500]
    ELSE [store |-> InsertRow(store, row), status |-> 201]

\* UPDATE patients SET firstName, lastName, dateOfBirth, teamName, primaryPayer, patientId
LegacyPutCols(body) ==
    [ firstName |-> Bind(Get(body, "firstName")),
      lastName |-> Bind(Get(body, "lastName")),
      dateOfBirth |-> Bind(Get(body, "dateOfBirth")),
      teamName |-> Bind(Get(body, "teamName")),
      primaryPayer |-> JsonCol(Get(body, "primaryPayer")),
      patientId |-> Bind(Get(body, "patientId")) ]

LegacyPutOutcome(store, id, body, isJson) ==
    PutOutcome(store, id, LegacyInvalid(body), LegacyPutCols(body), isJson)

\* ------------------------------------------------ POST <base>/admin/generate
\* one random draw of the generator: randomItem(firstNames), randomItem(statuses),
\* Math.random() > 0.8, and (spec) the 'pt-' key
GenMeta(t) ==
    Stringify([createdAt |-> t, createdBy |-> "admin-generator",
               updatedAt |-> t, updatedBy |-> "admin-generator"])

AdminGenRow(pick, uuid, t) ==
    [ id |-> uuid,
      firstName |-> JStr(pick.firstName),
      lastName |-> JStr("Smith"),
      dateOfBirth |-> JStr("1970-01-01"),
      gender |-> JNull,
      email |-> JStr("ann@example.com"),
      payer |-> JNull,
      insurance |-> Stringify(JObj([providerName |-> JStr("Aetna")])),
      status |-> JStr(pick.status),
      isPinned |-> pick.isPinned,
      metadata |-> GenMeta(t),
      team |-> Stringify(JObj([name |-> JStr("Red Team")])) ]

\* the spec generation stores primaryPayer in the insurance column, status 'ACTIVE'
SpecGenRow(pick, t) ==
    [ id |-> pick.key,
      firstName |-> JStr(pick.firstName),
      lastName |-> JStr("Smith"),
      dateOfBirth |-> JStr("1970-01-01"),
      gender |-> JNull,
      email |-> JStr("ann@example.com"),
      payer |-> JNull,
      insurance |-> Stringify(JObj([payerId |-> JStr("payer-aetna"),
                                    payerType |-> JStr("Insurance"),
                                    displayName |-> JStr("Aetna - PPO")])),
      status |-> JStr("ACTIVE"),
      isPinned |-> pick.isPinned,
      metadata |-> GenMeta(t),
      team |-> Stringify(JObj([teamId |-> JStr("team-1"), name |-> JStr("Red Team")])) ]

LegacyGenRow(pick, uuid, t) ==
    [ patientKey |-> uuid,
      patientId |-> JStr("00000042"),
      shipToId |-> JStr("1563073"),
      firstName |-> JStr(pick.firstName),
      lastName |-> JStr("Smith"),
      dateOfBirth |-> JStr("1970-01-01"),
      teamName |-> JStr("Red Team"),
      primaryPayer |-> Stringify(JObj([payerType |-> JStr("Agency"),
                                       payerDisplayName |-> JStr("Medicare")])),
      metadata |-> GenMeta(t) ]

GenRow(v, pick, uuid, t) ==
    CASE v = "admin" -> AdminGenRow(pick, uuid, t)
      [] v = "spec" -> SpecGenRow(pick, t)
      [] OTHER -> LegacyGenRow(pick, uuid, t)

\* parseInt(req.body.count) || 10
GenCount(count) == IF count = 0 THEN 10 ELSE count

\* insertPatient(i): a failed INSERT is skipped, the loop goes on
RECURSIVE GenInsert(_, _, _, _, _)
GenInsert(store, v, picks, firstUuid, t) ==
    IF picks = <<>> THEN store
    ELSE LET row == GenRow(v, Head(picks), Uuid(firstUuid), t) IN
         GenInsert(IF InsertFails(store, row) THEN store ELSE InsertRow(store, row),
                   v, Tail(picks), firstUuid + 1, t)

\* if (count < 1 || count > 1000) -> 400
GenCountInvalid(count) == GenCount(count) < 1 \/ GenCount(count) > 1000

GenerateOutcome(store, v, count, picks, firstUuid, t, isJson) ==
    IF ~requireJson("POST", isJson) THEN [store |-> store, status |-> 415]
    ELSE IF GenCountInvalid(count) THEN [store |-> store, status |-> 400]
    ELSE [store |-> GenInsert(store, v, picks, firstUuid, t), status |-> 200]

\* ------------------------------------------------------ text (SQL and JS)
\* the characters the model's strings are made of, in code-point order
Alphabet == <<" ", "%", ".", "@", "A", "B", "K", "L", "N", "_",
              "a", "b", "e", "i", "k", "l", "m", "n", "o">>

CharRank(c) == CHOOSE i \in 1..Len(Alphabet) : Alphabet[i] = c

\* toLowerCase() / LOWER() of one character
LowerChar(c) ==
    CASE c = "A" -> "a" [] c = "B" -> "b" [] c = "K" -> "k"
      [] c = "L" -> "l" [] c = "N" -> "n" [] OTHER -> c

Lower(cs) == [i \in 1..Len(cs) |-> LowerChar(cs[i])]

\* String.prototype.trim()
RECURSIVE TrimStart(_)
TrimStart(cs) == IF cs # <<>> /\ Head(cs) = " " THEN TrimStart(Tail(cs)) ELSE cs
RECURSIVE TrimEnd(_)
TrimEnd(cs) ==
    IF cs # <<>> /\ cs[Len(cs)] = " " THEN TrimEnd(SubSeq(cs, 1, Len(cs) - 1)) ELSE cs
Trim(cs) == TrimEnd(TrimStart(cs))

\* text LIKE pattern: % is any run of characters, _ any one character,
\* letters compare without case
RECURSIVE Like(_, _)
Like(text, pattern) ==
    IF pattern = <<>> THEN text = <<>>
    ELSE IF Head(pattern) = "%"
         THEN Like(text, Tail(pattern)) \/ (text # <<>> /\ Like(Tail(text), pattern))
    ELSE /\ text # <<>>
         /\ (Head(pattern) = "_" \/ LowerChar(Head(pattern)) = LowerChar(Head(text)))
         /\ Like(Tail(text), Tail(pattern))

\* BINARY collation of two texts
RECURSIVE TextLess(_, _)
TextLess(a, b) ==
    IF b = <<>> THEN FALSE
    ELSE IF a = <<>> THEN TRUE
    ELSE IF Head(a) = Head(b) THEN TextLess(Tail(a), Tail(b))
    ELSE CharRank(Head(a)) < CharRank(Head(b))

\* a column of a row; the columns no modelled request sets stay NULL
Col(row, c) == IF c \in DOMAIN row THEN row[c] ELSE JNull

\* COALESCE(x, '')
Coalesce(j) == IF j.t = "null" THEN JText(<<>>) ELSE j

\* a || b: NULL when either side is NULL
SqlConcat(a, b) == IF a.t = "null" \/ b.t = "null" THEN JNull ELSE JText(a.cs \o b.cs)

\* LOWER(x) LIKE ?: NULL on the left never matches
LowerLike(j, pattern) == j.t # "null" /\ Like(Lower(j.cs), pattern)

\* `%${q.toLowerCase()}%`
LikeQ(q) == <<"%">> \o Lower(q) \o <<"%">>

\* --------------------------------------------------- numbers (JS and SQL)
\* a JS number is NaN or a multiple of one half, written in halves
NaN == [t |-> "nan"]
Num(h) == [t |-> "number", h |-> h]
Whole(n) == 2 * n
IsWhole(h) == h % 2 = 0

\* Number(x) of a query parameter, on the texts the model sends
Number(x) ==
    CASE x = "0" -> Num(Whole(0))
      [] x = "1" -> Num(Whole(1))
      [] x = "2" -> Num(Whole(2))
      [] x = "3" -> Num(Whole(3))
      [] x = "4" -> Num(Whole(4))
      [] x = "" -> Num(Whole(0))
      [] x = "-1" -> Num(Whole(0 - 1))
      [] x = "1.5" -> Num(3)
      [] x = "2.5" -> Num(5)
      [] x = "26" -> Num(Whole(26))
      [] x = "101" -> Num(Whole(101))
      [] OTHER -> NaN

\* Number(req.query.p): an absent parameter is undefined, Number(undefined) is NaN
QueryNumber(query, p) == IF p \in DOMAIN query THEN Number(query[p]) ELSE NaN

\* n || d, in halves
NumOr(n, d) == IF n.t = "nan" \/ n.h = 0 THEN d ELSE n.h

MaxOf(a, b) == IF a >= b THEN a ELSE b
MinOf(a, b) == IF a <= b THEN a ELSE b

\* a page count that rounds down
CeilDiv_Floor(totalRecords, pageSizeH) == (2 * totalRecords) \div pageSizeH

\* Math.ceil(totalRecords / pageSize), pageSize in halves
CeilDiv(totalRecords, pageSizeH) == (2 * totalRecords + pageSizeH - 1) \div pageSizeH

\* ------------------------------------------------- list and search: paging
LegacyPageMax == 25
V1PageMax == 100
DefaultPageSize == 25

\* Math.max(1, Number(req.query.pageNo) || 1), in halves
EffectivePageNo(query) ==
    MaxOf(Whole(1), NumOr(QueryNumber(query, "pageNo"), Whole(1)))

\* Math.max(1, Math.min(max, Number(req.query.pageSize) || 25)), in halves
EffectivePageSize(query, max) ==
    MaxOf(Whole(1), MinOf(Whole(max), NumOr(QueryNumber(query, "pageSize"), Whole(DefaultPageSize))))

\* an offset that skips the first page
OffsetQ_FromPageNo(pageNoH, pageSizeH) == pageNoH * pageSizeH

\* (pageNo - 1) * pageSize, in quarters
OffsetQ(pageNoH, pageSizeH) == (pageNoH - Whole(1)) * pageSizeH

\* req.query.pageNo !== undefined && (isNaN(pageNo) || pageNo < 1)
PageNoError(query) ==
    /\ "pageNo" \in DOMAIN query
    /\ (Number(query.pageNo).t = "nan" \/ Number(query.pageNo).h < Whole(1))

\* req.query.pageSize !== undefined && (isNaN(pageSize) || pageSize < 1 || pageSize > 100)
PageSizeError(query) ==
    /\ "pageSize" \in DOMAIN query
    /\ \/ Number(query.pageSize).t = "nan"
       \/ Number(query.pageSize).h < Whole(1)
       \/ Number(query.pageSize).h > Whole(V1PageMax)

\* LIMIT ? OFFSET ?: a value that is not an integer is a datatype mismatch
\* (the statement fails); otherwise the rows from offset+1 on, at most limit
LimitFails(pageSizeH, offsetQ) == ~IsWhole(pageSizeH) \/ offsetQ % 4 # 0

LimitOffset(rows, pageSizeH, offsetQ) ==
    SubSeq(rows, (offsetQ \div 4) + 1, MinOf(Len(rows), (offsetQ \div 4) + (pageSizeH \div 2)))

\* ------------------------------------------------ list and search: sorting
\* req.query.p || d  (query parameters are strings; '' is falsy)
QueryOr(query, p, d) == IF p \in DOMAIN query /\ query[p] # "" THEN query[p] ELSE d

\* toLowerCase() / toUpperCase() of a sort direction
LowerWord(w) == IF w \in {"asc", "ASC", "Asc"} THEN "asc"
                ELSE IF w \in {"desc", "DESC", "Desc"} THEN "desc" ELSE w
UpperWord_AsSent(w) == w
UpperWord(w) == IF w \in {"asc", "ASC", "Asc"} THEN "ASC"
                ELSE IF w \in {"desc", "DESC", "Desc"} THEN "DESC" ELSE w

\* /api: ALLOWED_SORT_FIELDS and the mapping to columns
ALLOWED_SORT_FIELDS == {"firstName", "lastName", "patientId", "team"}

LegacySortError(query) == QueryOr(query, "sortBy", "firstName") \notin ALLOWED_SORT_FIELDS

LegacyOrderBy(query) ==
    LET sortBy == QueryOr(query, "sortBy", "firstName")
        sortDir == LowerWord(QueryOr(query, "sortDir", "asc")) IN
    << CASE sortBy = "lastName" -> "lastName"
         [] sortBy = "patientId" -> "patientId"
         [] sortBy = "team" -> "teamName"
         [] OTHER -> "firstName",
       IF sortDir = "desc" THEN "DESC" ELSE "ASC" >>

\* /api/v1 list: allowedSort.includes(sortBy) ? sortBy : 'firstName'
AllowedSort == {"firstName", "lastName", "dateOfBirth", "admissionDate"}

ListOrderBy_Unchecked(query) ==
    <<QueryOr(query, "sortBy", "firstName"), UpperWord(QueryOr(query, "sortMethod", "asc"))>>

ListOrderBy(query) ==
    LET sortBy == QueryOr(query, "sortBy", "firstName")
        sortMethod == UpperWord(QueryOr(query, "sortMethod", "asc")) IN
    << IF sortBy \in AllowedSort THEN sortBy ELSE "firstName",
       IF sortMethod \in {"ASC", "DESC"} THEN sortMethod ELSE "ASC" >>

\* /api/v1 search: ALLOWED_SORT_FIELDS_V2 of each generation
ALLOWED_SORT_FIELDS_V2(v) ==
    IF v = "admin" THEN {"LAST_NAME", "FIRST_NAME", "TEAM", "ADDRESS", "PATIENT_ID"}
    ELSE {"PatientName", "PatientId", "LastOrderDate", "LastOrderStatus",
          "PrimaryPayer", "Team", "Priority"}

\* sortBy && !ALLOWED_SORT_FIELDS_V2.has(sortBy)
SearchSortByError(v, query) ==
    QueryOr(query, "sortBy", "") # "" /\ query.sortBy \notin ALLOWED_SORT_FIELDS_V2(v)

\* sortMethod && !['ASC', 'DESC'].includes(sortMethod)
SearchSortMethodError(query) ==
    QueryOr(query, "sortMethod", "") # "" /\ query.sortMethod \notin {"ASC", "DESC"}

\* dbSort: 'lastName ASC' unless the switch finds the sortBy
SearchOrderBy(query) ==
    LET sortBy == QueryOr(query, "sortBy", "")
        dir == IF QueryOr(query, "sortMethod", "") = "DESC" THEN "DESC" ELSE "ASC" IN
    CASE sortBy = "LAST_NAME" -> <<"lastName", dir>>
      [] sortBy = "FIRST_NAME" -> <<"firstName", dir>>
      [] sortBy = "PATIENT_ID" -> <<"id", dir>>
      [] sortBy = "TEAM" -> <<"team", dir>>
      [] sortBy = "ADDRESS" -> <<"address", dir>>
      [] OTHER -> <<"lastName", "ASC">>

\* keys are opaque texts; their order is fixed: by kind, then by number
KeyKindRank(k) == CASE k[1] = "uuid" -> 1 [] k[1] = "pid" -> 2 [] k[1] = "pt" -> 3 [] OTHER -> 4
KeyLess(a, b) ==
    KeyKindRank(a) < KeyKindRank(b) \/ (KeyKindRank(a) = KeyKindRank(b) /\ a[2] < b[2])

\* a < b in the ORDER BY column: NULL first, texts in BINARY collation;
\* JSON columns hold at most one value in the model and compare equal
ColumnLess(col, a, b) ==
    IF col \in {"id", "patientKey"} THEN KeyLess(a, b)
    ELSE IF b.t = "null" THEN FALSE
    ELSE IF a.t = "null" THEN TRUE
    ELSE IF IsText(a) /\ IsText(b) THEN TextLess(a.cs, b.cs)
    ELSE FALSE

\* row a comes strictly before row b under ORDER BY col dir
Before(orderBy, a, b) ==
    IF orderBy[2] = "DESC"
    THEN ColumnLess(orderBy[1], Col(b, orderBy[1]), Col(a, orderBy[1]))
    ELSE ColumnLess(orderBy[1], Col(a, orderBy[1]), Col(b, orderBy[1]))

\* the sorter: rows go in in rowid order, equal rows keep that order
SortInsert(sorted, row, orderBy) ==
    LET later == {i \in 1..Len(sorted) : Before(orderBy, row, sorted[i])}
        at == IF later = {} THEN Len(sorted) + 1
              ELSE CHOOSE i \in later : \A j \in later : i <= j IN
    SubSeq(sorted, 1, at - 1) \o <<row>> \o SubSeq(sorted, at, Len(sorted))

RECURSIVE SortFrom(_, _, _)
SortFrom(sorted, rows, orderBy) ==
    IF rows = <<>> THEN sorted
    ELSE SortFrom(SortInsert(sorted, Head(rows), orderBy), Tail(rows), orderBy)

\* ORDER BY col dir; <<>> when the statement has no ORDER BY (rowid order)
OrderRows(rows, orderBy) == IF orderBy = <<>> THEN rows ELSE SortFrom(<<>>, rows, orderBy)

\* ---------------------------------------------- list and search: filtering
\* q = (req.query.q || '').trim()
QueryQ(query) == IF "q" \in DOMAIN query THEN Trim(query.q) ELSE <<>>

\* firstName || ' ' || lastName || ' ' || COALESCE(guid,'') || ' ' || COALESCE(email,'')
SearchText(row) ==
    SqlConcat(SqlConcat(SqlConcat(SqlConcat(SqlConcat(SqlConcat(
        Col(row, "firstName"), JText(<<" ">>)), Col(row, "lastName")), JText(<<" ">>)),
        Coalesce(Col(row, "guid"))), JText(<<" ">>)), Coalesce(Col(row, "email")))

\* /api/v1: LOWER(<the four columns joined by spaces>) LIKE '%' + q.toLowerCase() + '%'
V1Matches(row, q) == LowerLike(SearchText(row), LikeQ(q))

\* /api: LOWER(firstName) LIKE ? OR LOWER(lastName) LIKE ? OR patientId LIKE ?
\*       OR LOWER(teamName) LIKE ?
LegacyMatches(row, q) ==
    \E c \in {"firstName", "lastName", "patientId", "teamName"} :
        LowerLike(Col(row, c), LikeQ(q))

\* String(req.query.isPinned).toLowerCase() === 'true' ? 1 : 0
PinnedParam(w) == IF w \in {"true", "TRUE", "True"} THEN 1 ELSE 0

\* the WHERE clause of a list or search statement
RowMatches(v, endpoint, query, row) ==
    /\ QueryQ(query) # <<>> =>
           IF v = "legacy" THEN LegacyMatches(row, QueryQ(query))
           ELSE V1Matches(row, QueryQ(query))
    /\ (v # "legacy" /\ endpoint = "list" /\ "isPinned" \in DOMAIN query) =>
           row.isPinned = PinnedParam(query.isPinned)

\* SELECT COUNT(*) ... WHERE ...; SELECT * ... WHERE ... ORDER BY ... LIMIT ? OFFSET ?
SelectPage(store, v, endpoint, query, orderBy, pageNoH, pageSizeH) ==
    LET matching == SelectSeq(store, LAMBDA row : RowMatches(v, endpoint, query, row))
        offsetQ == OffsetQ(pageNoH, pageSizeH) IN
    [ failed |-> LimitFails(pageSizeH, offsetQ),
      totalRecords |-> Len(matching),
      rows |-> IF LimitFails(pageSizeH, offsetQ) THEN <<>>
               ELSE LimitOffset(OrderRows(matching, orderBy), pageSizeH, offsetQ),
      sql |-> [orderBy |-> orderBy, limit |-> pageSizeH, offset |-> offsetQ] ]

\* rows.map(rowToPatient...): each item of a page is told by its key
PageItems(rows) == [i \in 1..Len(rows) |-> KeyOf(rows[i])]

\* --------------------------------------------- list and search: responses
NoSql == [orderBy |-> <<>>, limit |-> 0, offset |-> 0]

ErrorResponse(status) == [kind |-> "error", status |-> status, sql |-> NoSql, body |-> <<>>]
PageResponse(sel, body) == [kind |-> "page", status |-> 200, sql |-> sel.sql, body |-> body]
\* res.json(rowToPatient...(row)): the record is told by its key
RecordResponse(row) == [kind |-> "record", status |-> 200, sql |-> NoSql, body |-> KeyOf(row)]

\* GET /api/patients/:shipToId
LegacySearch(store, shipToId, query) ==
    LET pageNo == EffectivePageNo(query)
        pageSize == EffectivePageSize(query, LegacyPageMax)
        sel == SelectPage(store, "legacy", "search", query, LegacyOrderBy(query), pageNo, pageSize) IN
    IF LegacySortError(query) THEN ErrorResponse(400)
    ELSE IF sel.failed THEN ErrorResponse(500)
    ELSE PageResponse(sel,
             [ pagination |-> [pageNo |-> pageNo, pageSize |-> pageSize,
                               totalRecords |-> sel.totalRecords,
                               totalPages |-> CeilDiv(sel.totalRecords, pageSize)],
               patients |-> PageItems(sel.rows) ])

\* GET /api/patients (the statement has no ORDER BY)
LegacyList(store, query) ==
    LET pageNo == EffectivePageNo(query)
        pageSize == EffectivePageSize(query, LegacyPageMax)
        sel == SelectPage(store, "legacy", "list", query, <<>>, pageNo, pageSize) IN
    IF sel.failed THEN ErrorResponse(500)
    ELSE PageResponse(sel,
             [ pagination |-> [pageNo |-> pageNo, pageSize |-> pageSize,
                               totalRecords |-> sel.totalRecords,
                               totalPages |-> CeilDiv(sel.totalRecords, pageSize)],
               patients |-> PageItems(sel.rows) ])

\* the query validation both /api/v1 searches share
SearchQueryError(v, query) ==
    \/ PageNoError(query) \/ PageSizeError(query)
    \/ SearchSortByError(v, query) \/ SearchSortMethodError(query)

\* !soldTo, or soldTo.trim() === ""
SoldToError(query) == "soldTo" \notin DOMAIN query \/ Trim(query.soldTo) = <<>>

\* GET /api/v1/patients/search
AdminSearch(store, query, auth, pingAuth) ==
    LET pNo == EffectivePageNo(query)
        pSize == EffectivePageSize(query, V1PageMax)
        sel == SelectPage(store, "admin", "search", query, SearchOrderBy(query), pNo, pSize) IN
    IF ~auth \/ ~pingAuth THEN ErrorResponse(401)
    ELSE IF SoldToError(query) \/ SearchQueryError("admin", query) THEN ErrorResponse(400)
    ELSE IF sel.failed THEN ErrorResponse(500)
    ELSE PageResponse(sel,
             [ patients |-> PageItems(sel.rows),
               totalRecords |-> sel.totalRecords,
               pageNo |-> pNo,
               pagesCount |-> CeilDiv(sel.totalRecords, pSize) ])

\* GET /api/v1/patients/:shipToId once the id is not taken for a patient's
SpecSearch(store, shipToId, query) ==
    LET pNo == EffectivePageNo(query)
        pSize == EffectivePageSize(query, V1PageMax)
        sel == SelectPage(store, "spec", "search", query, SearchOrderBy(query), pNo, pSize) IN
    IF SearchQueryError("spec", query) THEN ErrorResponse(400)
    ELSE IF sel.failed THEN ErrorResponse(500)
    ELSE PageResponse(sel,
             [ shipToId |-> shipToId,
               patients |-> PageItems(sel.rows),
               totalCount |-> sel.totalRecords,
               pageNo |-> pNo,
               pageSize |-> pSize ])

\* GET /api/v1/patients
V1List(store, v, query) ==
    LET pageNo == EffectivePageNo(query)
        pageSize == EffectivePageSize(query, V1PageMax)
        sel == SelectPage(store, v, "list", query, ListOrderBy(query), pageNo, pageSize) IN
    IF sel.failed THEN ErrorResponse(500)
    ELSE IF v = "spec"
    THEN PageResponse(sel,
             [ data |-> PageItems(sel.rows),
               patients |-> PageItems(sel.rows),
               totalRecords |-> sel.totalRecords,
               pageNo |-> pageNo,
               curentPageSize |-> pageSize,
               pagesCount |-> CeilDiv(sel.totalRecords, pageSize) ])
    ELSE PageResponse(sel,
             [ data |-> PageItems(sel.rows),
               totalRecords |-> sel.totalRecords,
               pageNo |-> pageNo,
               curentPageSize |-> pageSize,
               pagesCount |-> CeilDiv(sel.totalRecords, pageSize) ])

\* GET /api/v1/patients/:id
GetById(store, id) ==
    IF ~HasRow(store, id) THEN ErrorResponse(404) ELSE RecordResponse(RowOf(store, id))

\* ----------------------------------------------------------- GET routing
\* a path segment is a key, an account number or the word 'search'
Account(n) == <<"acct", n>>
SearchWord == <<"word", 0>>

\* /^[0-9a-f]{8}-[0-9a-f]{4}/.test(shipToId) || shipToId.startsWith('pt-')
possibleUUID(segment) == segment[1] \in {"uuid", "pt"}

\* GET <base>/patients/<segment>: the first route registered that takes it
GetSegment(v, store, segment, query, auth, pingAuth) ==
    CASE v = "legacy" -> LegacySearch(store, segment, query)
      [] v = "admin" -> IF segment = SearchWord THEN AdminSearch(store, query, auth, pingAuth)
                        ELSE GetById(store, segment)
      [] OTHER -> IF possibleUUID(segment) THEN GetById(store, segment)
                  ELSE SpecSearch(store, segment, query)

\* GET <base>/patients
GetList(v, store, query) ==
    IF v = "legacy" THEN LegacyList(store, query) ELSE V1List(store, v, query)

\* ------------------------------------------------------------------ actions
\* a response that carries no record and no page
NoBody == [kind |-> "none"]

Respond(op, status) == resp' = [op |-> op, status |-> status] /\ sent' = NoBody

\* POST <base>/patients
CreateOutcome(body, xUser, isJson) ==
    CASE version = "admin" -> AdminCreateOutcome(patients, body, Uuid(issued + 1), xUser, now, isJson)
      [] version = "spec" -> SpecCreateOutcome(patients, body, Uuid(issued + 1), xUser, now, isJson)
      [] OTHER -> LegacyCreateOutcome(patients, body, Uuid(issued + 1), now, isJson)

\* the request got as far as calling randomUUID()
CreateDrawsUuid(body, isJson) ==
    /\ isJson
    /\ CASE version = "admin" -> ~AdminCreateInvalid(body)
         [] version = "spec" -> ~SpecCreateInvalid(body) /\ SpecTakesUuid(body)
         [] OTHER -> ~LegacyInvalid(body)

\* the key the new row gets
CreateKey(body) ==
    IF version = "spec" THEN SpecCreateId(body, Uuid(issued + 1)) ELSE Uuid(issued + 1)

CreatePatient(body, xUser, isJson) ==
    LET out == CreateOutcome(body, xUser, isJson) IN
    /\ patients' = out.store
    /\ issued' = IF CreateDrawsUuid(body, isJson) THEN issued + 1 ELSE issued
    /\ Respond("create", out.status)
    /\ UNCHANGED <<version, now, deleted, flight>>

\* PUT <base>/patients/:id
PutPatient(id, body, xUser, isJson) ==
    LET out == CASE version = "admin" -> AdminPutOutcome(patients, id, body, xUser, now, isJson)
                 [] version = "spec" -> SpecPutOutcome(patients, id, body, xUser, now, isJson)
                 [] OTHER -> LegacyPutOutcome(patients, id, body, isJson) IN
    /\ patients' = out.store
    /\ Respond("put", out.status)
    /\ UNCHANGED <<version, now, issued, deleted, flight>>

\* PATCH /api/v1/patients/:id
PatchPatient(id, body, xUser, isJson) ==
    LET out == PatchOutcome(patients, id, body, xUser, now, isJson) IN
    /\ version \in {"admin", "spec"}
    /\ patients' = out.store
    /\ Respond("patch", IF version = "spec" THEN SpecAnswer(out.status) ELSE out.status)
    /\ UNCHANGED <<version, now, issued, deleted, flight>>

\* PUT /api/v1/patients/:id/pin
\* (the handler never reads the X-User header the request carries)
PinPatient(id, body, xUser, isJson) ==
    LET out == PinOutcome(patients, id, body, now, isJson) IN
    /\ version \in {"admin", "spec"}
    /\ patients' = out.store
    /\ Respond("pin", out.status)
    /\ UNCHANGED <<version, now, issued, deleted, flight>>

\* DELETE <base>/patients/:id
DeletePatient(id) ==
    LET out == DeleteOutcome(patients, id) IN
    /\ patients' = out.store
    /\ Respond("delete", out.status)
    /\ deleted' = (IF out.status = 204 THEN deleted \cup {id} ELSE deleted)
    /\ UNCHANGED <<version, now, issued, flight>>

\* POST <base>/admin/generate with body {count}
GenDrawsUuids(count, isJson) ==
    IF isJson /\ ~GenCountInvalid(count) /\ version # "spec" THEN GenCount(count) ELSE 0

GeneratePatients(count, picks, isJson) ==
    LET out == GenerateOutcome(patients, version, count, picks, issued + 1, now, isJson) IN
    /\ Len(picks) = (IF GenCountInvalid(count) THEN 0 ELSE GenCount(count))
    /\ patients' = out.store
    /\ issued' = issued + GenDrawsUuids(count, isJson)
    /\ Respond("generate", out.status)
    /\ UNCHANGED <<version, now, deleted, flight>>

\* what a request got back, kept with the request
Sent(out, segment, query) ==
    [kind |-> out.kind, status |-> out.status, sql |-> out.sql, body |-> out.body,
     request |-> [segment |-> segment, query |-> query]]

\* GET <base>/patients/<segment>
GetPatients(segment, query, auth, pingAuth) ==
    LET out == GetSegment(version, patients, segment, query, auth, pingAuth) IN
    /\ resp' = [op |-> "get", status |-> out.status]
    /\ sent' = Sent(out, segment, query)
    /\ UNCHANGED <<version, patients, now, issued, deleted, flight>>

\* GET <base>/patients
ListPatients(query) ==
    LET out == GetList(version, patients, query) IN
    /\ resp' = [op |-> "list", status |-> out.status]
    /\ sent' = Sent(out, <<>>, query)
    /\ UNCHANGED <<version, patients, now, issued, deleted, flight>>

\* DELETE /api/patients/<accountId>?patientKeys=k1&patientKeys=k2: the only
\* DELETE route under /api/patients takes it, with :id = accountId, and
\* never reads the query
BulkDeletePatients(accountId, patientKeys) ==
    LET out == DeleteOutcome(patients, accountId) IN
    /\ version = "legacy"
    /\ patients' = out.store
    /\ resp' = [op |-> "bulkdelete", status |-> out.status]
    /\ sent' = Sent(ErrorResponse(out.status), accountId, [patientKeys |-> patientKeys])
    /\ deleted' = (IF out.status = 204 THEN deleted \cup {accountId} ELSE deleted)
    /\ UNCHANGED <<version, now, issued, flight>>

\* time passes between requests
\* ------------------------------------------------------ requests in flight
\* node-sqlite3 hands each statement to the database on its own and runs the
\* callback when it has finished: between two statements of one request the
\* statements of another can run.  A step is one statement with its callback.
Requests == {"a", "b"}
Idle == [pc |-> "idle"]
NoFlight == [r \in Requests |-> Idle]

Active == {r \in Requests : flight[r].pc # "idle"}
Finished(r) == flight[r].pc \in {"done", "lost"}

\* history: the store as it was when the requests in flight began to overlap
Base == IF Active = {} THEN patients ELSE flight[CHOOSE r \in Active : TRUE].base

\* the synchronous part of a handler: requireJson and the validation
Accepted(op, body) ==
    CASE op = "create" -> IF version = "admin" THEN ~AdminCreateInvalid(body) ELSE ~SpecCreateInvalid(body)
      [] op = "put" -> IF version = "admin" THEN ~AdminPutInvalid(body) ELSE ~SpecPutInvalid(body)
      [] op = "patch" -> ~PatchInvalid(body)
      [] op = "pin" -> "isPinned" \in DOMAIN body
      [] OTHER -> TRUE

\* the first statement the handler hands to the database
FirstStatement(op) ==
    CASE op = "create" -> "check"
      [] op = "put" -> "update"
      [] op = "patch" -> "read"
      [] op = "pin" -> "read"
      [] OTHER -> "delete"

\* a request passes validation and its first statement is queued; create, PUT
\* and pin read the clock (and create draws its UUID) before that
Begin(r, op, key, body, xUser) ==
    /\ version \in {"admin", "spec"}
    /\ flight[r] = Idle
    /\ Accepted(op, body)
    /\ flight' = [flight EXCEPT ![r] =
            [pc |-> FirstStatement(op), op |-> op,
             key |-> IF op = "create" THEN CreateKey(body) ELSE key,
             body |-> body, xUser |-> xUser, t |-> now, mRow |-> Idle,
             status |-> NoResponse, changed |-> FALSE, carried |-> JNull, base |-> Base]]
    /\ issued' = IF op = "create" /\ CreateDrawsUuid(body, TRUE) THEN issued + 1 ELSE issued
    /\ UNCHANGED <<version, patients, now, resp, deleted, sent>>

At(r, op, pc) == flight[r].pc = pc /\ flight[r].op = op

\* the callback hands the next statement to the database
Queue(r, pc, changed) ==
    /\ flight' = [flight EXCEPT ![r].pc = pc, ![r].changed = changed]
    /\ UNCHANGED <<resp, sent>>

\* res.json(rowToPatientSearch(...)) of the caller-keyed server throws: the
\* process ends, and every other request in flight is left where it is
Throws(op, status) == version = "spec" /\ op \in {"create", "put", "patch"} /\ status \in {200, 201}

\* the callback answers the request
Answer(r, status, changed, carried) ==
    LET mine == [flight[r] EXCEPT !.pc = "done", !.changed = changed, !.carried = carried,
                                  !.status = IF Throws(flight[r].op, status) THEN NoResponse ELSE status] IN
    /\ flight' = [q \in Requests |->
                    IF q = r THEN mine
                    ELSE IF Throws(flight[r].op, status) /\ q \in Active /\ ~Finished(q)
                    THEN [flight[q] EXCEPT !.pc = "lost"]
                    ELSE flight[q]]
    /\ Respond(flight[r].op, mine.status)

\* the row a create in flight is about to insert
CreateRowOf(q) ==
    IF version = "admin" THEN AdminCreateRow(q.body, q.key, q.xUser, q.t)
    ELSE SpecCreateRow(q.body, q.key, q.xUser, q.t)

\* create: SELECT id ... -> 409, or the INSERT is queued
CreateCheck(r) ==
    LET q == flight[r] IN
    /\ At(r, "create", "check")
    /\ IF (IF version = "admin" THEN NameDobMatch(patients, CreateRowOf(q)) ELSE HasRow(patients, q.key))
       THEN Answer(r, 409, FALSE, JNull)
       ELSE Queue(r, "insert", FALSE)
    /\ UNCHANGED <<version, patients, now, issued, deleted>>

\* create: INSERT -> 500 on an error, 201 with the record otherwise
CreateInsert(r) ==
    LET q == flight[r] IN
    /\ At(r, "create", "insert")
    /\ IF InsertFails(patients, CreateRowOf(q))
       THEN patients' = patients /\ Answer(r, 500, FALSE, JNull)
       ELSE patients' = InsertRow(patients, CreateRowOf(q)) /\ Answer(r, 201, TRUE, CreateRowOf(q))
    /\ UNCHANGED <<version, now, issued, deleted>>

\* PUT and PATCH: UPDATE -> 500 on an error, 404 when this.changes is 0, or
\* the re-read is queued
RunUpdate(r, cols) ==
    LET q == flight[r] IN
    /\ IF UpdateFails(patients, q.key, cols) THEN patients' = patients /\ Answer(r, 500, FALSE, JNull)
       ELSE IF UpdateChanges(patients, q.key) = 0 THEN patients' = patients /\ Answer(r, 404, FALSE, JNull)
       ELSE patients' = UpdateRow(patients, q.key, cols) /\ Queue(r, "reread", TRUE)
    /\ UNCHANGED <<version, now, issued, deleted>>

PutWrite(r) ==
    LET q == flight[r] IN
    /\ At(r, "put", "update")
    /\ RunUpdate(r, IF version = "admin" THEN AdminPutCols(q.body, q.xUser, q.t)
                    ELSE SpecPutCols(q.body, q.xUser, q.t))

\* PATCH and pin: SELECT metadata ... -> 404, or the UPDATE is queued; PATCH
\* reads the clock in this callback
ReadMetadata(r) ==
    LET q == flight[r] IN
    /\ flight[r].pc = "read" /\ flight[r].op \in {"patch", "pin"}
    /\ IF ~HasRow(patients, q.key) THEN Answer(r, 404, FALSE, JNull)
       ELSE /\ flight' = [flight EXCEPT ![r].pc = "update",
                                        ![r].mRow = [metadata |-> RowOf(patients, q.key).metadata],
                                        ![r].t = IF q.op = "patch" THEN now ELSE q.t]
            /\ UNCHANGED <<resp, sent>>
    /\ UNCHANGED <<version, patients, now, issued, deleted>>

\* PATCH: the UPDATE, with the metadata merged from what the SELECT returned
PatchWrite(r) ==
    LET q == flight[r] IN
    /\ At(r, "patch", "update")
    /\ RunUpdate(r, PatchUpdate(q.mRow, q.body, q.xUser, q.t))

\* PUT and PATCH: SELECT * ... WHERE id = ? and res.json(rowToPatient(row)),
\* null when the row is gone
Reread(r) ==
    LET q == flight[r] IN
    /\ flight[r].pc = "reread"
    /\ Answer(r, 200, TRUE, IF HasRow(patients, q.key) THEN RowOf(patients, q.key) ELSE JNull)
    /\ UNCHANGED <<version, patients, now, issued, deleted>>

\* pin: the UPDATE; the callback answers 200 without looking at this.changes
PinWrite(r) ==
    LET q == flight[r]
        cols == [isPinned |-> PinBit(q.body.isPinned),
                 metadata |-> Stringify(PinMeta(ExistingMeta(q.mRow), q.t))] IN
    /\ At(r, "pin", "update")
    /\ patients' = UpdateRow(patients, q.key, cols)
    /\ Answer(r, 200, UpdateChanges(patients, q.key) > 0, JNull)
    /\ UNCHANGED <<version, now, issued, deleted>>

\* DELETE: one statement
DeleteRun(r) ==
    LET q == flight[r]
        out == DeleteOutcome(patients, q.key) IN
    /\ At(r, "delete", "delete")
    /\ patients' = out.store
    /\ Answer(r, out.status, out.status = 204, JNull)
    /\ deleted' = (IF out.status = 204 THEN deleted \cup {q.key} ELSE deleted)
    /\ UNCHANGED <<version, now, issued>>

\* every request in flight has ended; the next ones meet the store as it is
\* (after a throw, in the process started next)
Settle ==
    /\ Active # {} /\ \A r \in Active : Finished(r)
    /\ flight' = NoFlight
    /\ UNCHANGED <<version, patients, now, issued, resp, deleted, sent>>

Tick ==
    /\ now < MaxTime
    /\ now' = now + 1
    /\ UNCHANGED <<version, patients, issued, resp, deleted, sent, flight>>

InitStore(versions) ==
    /\ version \in versions
    /\ patients = <<>>
    /\ now = 1
    /\ issued = 0
    /\ resp = [op |-> "none", status |-> 0]
    /\ deleted = {}
    /\ sent = NoBody
    /\ flight = NoFlight

\* ----------------------------------------------------------- request values
\* keys are opaque strings: generated UUIDs, caller-supplied ids, 'pt-' keys
CallerId(n) == <<"pid", n>>
PtKey(n) == <<"pt", n>>

Uuids == {Uuid(n) : n \in 1..MaxUuid}
Users == {JUndef, JStr("alice")}
MockIns == JObj([providerName |-> JStr("MockIns"), policyNumber |-> JStr("P123")])

\* the smallest body each generation's create and PUT accept
BaseBody(v) ==
    CASE v = "admin" -> [firstName |-> JStr("Test"), lastName |-> JStr("Patient"), insurance |-> MockIns]
      [] v = "spec" -> [firstName |-> JStr("Test"), lastName |-> JStr("Patient"), insurance |-> MockIns]
      [] OTHER -> [firstName |-> JStr("Test"), lastName |-> JStr("Patient"),
                   patientId |-> JStr("00000042"), teamName |-> JStr("Red Team"),
                   dateOfBirth |-> JStr("1970-01-01")]

With(body, f, j) == [g \in DOMAIN body \cup {f} |-> IF g = f THEN j ELSE body[g]]

\* ------------------------------------------------- audit fields (metadata)
\* the keys a row can have in the running generation
AuditKeys == IF version = "spec" THEN {CallerId(1), CallerId(2)} ELSE Uuids

AuditCreateBodies == {IF version = "spec" THEN With(BaseBody(version), "patientId", JStr(CallerId(1)))
                      ELSE BaseBody(version)}

\* records are created without an X-User header, so by "system"
\* a PUT body without metadata, and one carrying another createdAt/createdBy
ForgedMeta == JObj([createdAt |-> MaxTime + 1, createdBy |-> "mallory"])
AuditPutBodies == {BaseBody(version), With(BaseBody(version), "metadata", ForgedMeta)}

AuditPatchBodies == {[isPinned |-> JBool(FALSE)]}
AuditPinBodies == {[isPinned |-> JBool(FALSE)]}

InitAudit == InitStore({"legacy", "admin", "spec"})

\* the model's bounds on what a step may leave behind
Within(maxRows) == Len(patients') <= maxRows /\ issued' <= MaxUuid

NextAudit ==
    \/ \E b \in AuditCreateBodies :
            CreatePatient(b, JUndef, TRUE) /\ Within(AuditMaxRows)
    \/ \E k \in AuditKeys, b \in AuditPutBodies, u \in Users : PutPatient(k, b, u, TRUE)
    \/ \E k \in AuditKeys, b \in AuditPatchBodies, u \in Users : PatchPatient(k, b, u, TRUE)
    \/ \E k \in AuditKeys, b \in AuditPinBodies, u \in Users : PinPatient(k, b, u, TRUE)
    \/ Tick

SpecAudit == InitAudit /\ [][NextAudit]_vars

\* the parsed metadata of the row stored under a key
MetaOf(store, k) == ExistingMeta(RowOf(store, k))

SameCreated(k) ==
    /\ HasRow(patients', k)
    /\ MetaOf(patients', k).createdAt = MetaOf(patients, k).createdAt
    /\ MetaOf(patients', k).createdBy = MetaOf(patients, k).createdBy

\* the step is a request of kind op that carried its write out: answered 200,
\* or left without a response by the caller-keyed server
CarriedOut(op) == resp'.op = op /\ resp'.status \in {200, NoResponse}

\* C1: a successful PATCH leaves metadata.createdAt and metadata.createdBy of
\* the patched record as they were stored, so any sequence of PATCH calls
\* keeps the values the record was created with.
C1_PatchKeepsCreated ==
    [][CarriedOut("patch") =>
        \A k \in AuditKeys, b \in AuditPatchBodies, u \in Users :
            PatchPatient(k, b, u, TRUE) => SameCreated(k)]_vars

\* a record patched by another caller at a later time than it was created
C1_Witness ==
    /\ resp = [op |-> "patch", status |-> 200]
    /\ \E i \in 1..Len(patients) :
        LET m == ExistingMeta(patients[i]) IN
        /\ m.createdAt < m.updatedAt
        /\ m.createdBy = "system"
        /\ m.updatedBy = "alice"

\* C2: a successful PUT leaves metadata.createdAt and metadata.createdBy of
\* the replaced record as they were stored, whatever metadata the body carries.
C2_PutKeepsCreated ==
    [][CarriedOut("put") =>
        \A k \in AuditKeys, b \in AuditPutBodies, u \in Users :
            PutPatient(k, b, u, TRUE) => SameCreated(k)]_vars

\* C3: every stored record has metadata.createdAt and metadata.updatedAt,
\* and createdAt <= updatedAt.
C3_CreatedNotAfterUpdated ==
    \A i \in 1..Len(patients) :
        LET m == ExistingMeta(patients[i]) IN
        /\ {"createdAt", "updatedAt"} \subseteq DOMAIN m
        /\ m.createdAt <= m.updatedAt

\* the metadata fields other than f are the same before and after
SameMetaExcept(k, fs) ==
    /\ DOMAIN MetaOf(patients', k) \ fs = DOMAIN MetaOf(patients, k) \ fs
    /\ \A f \in DOMAIN MetaOf(patients, k) \ fs : MetaOf(patients', k)[f] = MetaOf(patients, k)[f]

Refreshed(k, u) ==
    /\ HasRow(patients', k)
    /\ "updatedAt" \in DOMAIN MetaOf(patients', k)
    /\ "updatedBy" \in DOMAIN MetaOf(patients', k)
    /\ MetaOf(patients', k).updatedAt = now
    /\ MetaOf(patients', k).updatedBy = Caller(u)

\* C4 as stated: every successful PUT, PATCH or pin, on any route set, sets
\* metadata.updatedAt to the time of the write and metadata.updatedBy to the
\* caller identity of the request.
C4_EveryWriteRefreshes ==
    [][/\ CarriedOut("put") =>
            \A k \in AuditKeys, b \in AuditPutBodies, u \in Users :
                PutPatient(k, b, u, TRUE) => Refreshed(k, u)
       /\ CarriedOut("patch") =>
            \A k \in AuditKeys, b \in AuditPatchBodies, u \in Users :
                PatchPatient(k, b, u, TRUE) => Refreshed(k, u)
       /\ CarriedOut("pin") =>
            \A k \in AuditKeys, b \in AuditPinBodies, u \in Users :
                PinPatient(k, b, u, TRUE) => Refreshed(k, u)]_vars

\* C4 amended: PUT and PATCH on /api/v1 set updatedAt to the time of the write
\* and updatedBy to the caller identity; pin sets updatedAt to the time of the
\* write and leaves the rest of the metadata, updatedBy included, as stored;
\* PUT on /api leaves the metadata untouched; updatedAt of a stored record
\* never decreases.
C4_WritesRefreshPerRoute ==
    [][/\ CarriedOut("put") =>
            \A k \in AuditKeys, b \in AuditPutBodies, u \in Users :
                PutPatient(k, b, u, TRUE) =>
                    IF version = "legacy" THEN SameMetaExcept(k, {}) ELSE Refreshed(k, u)
       /\ CarriedOut("patch") =>
            \A k \in AuditKeys, b \in AuditPatchBodies, u \in Users :
                PatchPatient(k, b, u, TRUE) => Refreshed(k, u)
       /\ CarriedOut("pin") =>
            \A k \in AuditKeys, b \in AuditPinBodies, u \in Users :
                PinPatient(k, b, u, TRUE) =>
                    /\ MetaOf(patients', k).updatedAt = now
                    /\ SameMetaExcept(k, {"updatedAt"})
       /\ patients' # patients =>
            \A k \in StoredKeys(patients) \cap StoredKeys(patients') :
                "updatedAt" \in DOMAIN MetaOf(patients, k) =>
                    /\ "updatedAt" \in DOMAIN MetaOf(patients', k)
                    /\ MetaOf(patients, k).updatedAt <= MetaOf(patients', k).updatedAt]_vars

\* a record pinned by "alice" later than its last write by "system"
C4_Witness ==
    /\ resp = [op |-> "pin", status |-> 200]
    /\ \E i \in 1..Len(patients) :
        LET m == ExistingMeta(patients[i]) IN
        /\ version \in {"admin", "spec"}
        /\ m.createdAt < m.updatedAt
        /\ m.updatedAt = now
        /\ m.updatedBy = "system"

\* ------------------------------------------------------ keys and duplicates
KeysMaxRows == 2    \* rows in the table when keys and duplicates are checked

KeysIds == {CallerId(1), CallerId(2)}
KeysKeys == IF version = "spec" THEN KeysIds \cup {PtKey(1)} ELSE Uuids

\* spec: the same key as patientId and as id, a second key, and a body that
\* names a key but no lastName; admin: with and without dateOfBirth, another
\* name, and a body without lastName
KeysCreateBodies ==
    CASE version = "spec" ->
            {With(BaseBody("spec"), "patientId", JStr(k)) : k \in KeysIds}
            \cup {With(BaseBody("spec"), "id", JStr(CallerId(1))),
                  [patientId |-> JStr(CallerId(1)), firstName |-> JStr("Test")]}
      [] version = "admin" ->
            {BaseBody("admin"),
             With(BaseBody("admin"), "dateOfBirth", JStr("1970-01-01")),
             With(BaseBody("admin"), "firstName", JStr("Other")),
             [firstName |-> JStr("Test"), insurance |-> MockIns]}
      [] OTHER -> {BaseBody("legacy")}

KeysGenPicks == {[firstName |-> "John", status |-> "ACTIVE", isPinned |-> 0, key |-> PtKey(1)]}

InitKeys == InitStore({"legacy", "admin", "spec"})

NextKeys ==
    \/ \E b \in KeysCreateBodies :
            CreatePatient(b, JUndef, TRUE) /\ Within(KeysMaxRows)
    \/ \E k \in KeysKeys : DeletePatient(k)
    \/ \E p \in KeysGenPicks :
            GeneratePatients(1, <<p>>, TRUE) /\ Within(KeysMaxRows)

SpecKeys == InitKeys /\ [][NextKeys]_vars

UniqueKeys(store) ==
    \A i, j \in 1..Len(store) : KeyOf(store[i]) = KeyOf(store[j]) => i = j

\* C5: no two stored records share a key, and no stored record has a key
\* that DELETE removed earlier.
C5_KeysUniqueNeverReused ==
    /\ UniqueKeys(patients)
    /\ StoredKeys(patients) \cap deleted = {}

\* the step answers a create
AnsweredCreate == resp'.op = "create"

\* C6 as stated: a create (a JSON request) whose key is the key of a stored
\* record is answered 409 and leaves the store as it was.
C6_DuplicateKeyIs409 ==
    [][AnsweredCreate =>
        \A b \in KeysCreateBodies :
            (HasRow(patients, CreateKey(b)) /\ CreatePatient(b, JUndef, TRUE)) =>
                (resp'.status = 409 /\ patients' = patients)]_vars

\* C6 amended: a create whose key is the key of a stored record leaves the
\* store as it was; it is answered 400 when the body fails validation and
\* 409 when it passes.
C6_ValidDuplicateKeyIs409 ==
    [][AnsweredCreate =>
        \A b \in KeysCreateBodies :
            (HasRow(patients, CreateKey(b)) /\ CreatePatient(b, JUndef, TRUE)) =>
                /\ patients' = patients
                /\ resp'.status = (IF SpecCreateInvalid(b) THEN 400 ELSE 409)]_vars

\* a valid create was answered 409 and the record it named is still stored
C6_Witness ==
    /\ version = "spec"
    /\ resp = [op |-> "create", status |-> 409]
    /\ HasRow(patients, CallerId(1))
    /\ Len(patients) = 1

\* the request carries the (firstName, lastName, dateOfBirth) of a stored row;
\* a request without dateOfBirth carries null
SameNameDob(row, body) ==
    /\ row.firstName = Bind(Get(body, "firstName"))
    /\ row.lastName = Bind(Get(body, "lastName"))
    /\ row.dateOfBirth = OrElse(Get(body, "dateOfBirth"), JNull)

\* C7: on the name+DOB checking generation a valid create that carries the
\* (firstName, lastName, dateOfBirth) of a stored record is answered 409 and
\* stores nothing.
C7_SameNameDobIs409 ==
    [][(AnsweredCreate /\ version = "admin") =>
        \A b \in KeysCreateBodies :
            (/\ \E i \in 1..Len(patients) : SameNameDob(patients[i], b)
             /\ ~AdminCreateInvalid(b)
             /\ CreatePatient(b, JUndef, TRUE)) =>
                (resp'.status = 409 /\ patients' = patients)]_vars

\* ------------------------------------------------- writes and rejections
WritesMaxRows == 1  \* rows in the table when writes and rejections are checked

WritesKeys == IF version = "spec" THEN {CallerId(1), CallerId(2)} ELSE Uuids

\* a body without lastName, which every generation's validation refuses
NoLastName == [firstName |-> JStr("Test"), insurance |-> MockIns]

\* a record with a date of birth, pinned
FullBody(v) ==
    IF v = "legacy" THEN BaseBody(v)
    ELSE With(With(BaseBody(v), "dateOfBirth", JStr("1970-01-01")), "isPinned", JBool(TRUE))

WritesCreateBodies ==
    IF version = "spec"
    THEN {With(FullBody("spec"), "patientId", JStr(CallerId(1))),
          With(NoLastName, "patientId", JStr(CallerId(1)))}
    ELSE {FullBody(version), NoLastName}

WritesPutBodies == {FullBody(version), NoLastName}

\* null and false for present keys, several keys at once, enum values outside
\* the allow-lists next to valid keys, no key at all, only a key PATCH ignores
WritesPatchBodies ==
    { [dateOfBirth |-> JNull],
      [isPinned |-> JBool(FALSE)],
      [status |-> JStr("DISCHARGED"), email |-> JStr("bob@example.com")],
      [firstName |-> JNull],
      [gender |-> JNull],
      [gender |-> JStr("X"), lastName |-> JStr("Doe")],
      [status |-> JStr("BOGUS"), isPinned |-> JBool(FALSE)],
      [metadata |-> ForgedMeta],
      << >> }

InitWrites == InitStore({"legacy", "admin", "spec"})

NextWrites ==
    \/ \E b \in WritesCreateBodies, j \in BOOLEAN :
            CreatePatient(b, JUndef, j) /\ Within(WritesMaxRows)
    \/ \E k \in WritesKeys, b \in WritesPutBodies, j \in BOOLEAN : PutPatient(k, b, JUndef, j)
    \/ \E k \in WritesKeys, b \in WritesPatchBodies, j \in BOOLEAN : PatchPatient(k, b, JUndef, j)

SpecWrites == InitWrites /\ [][NextWrites]_vars

AnsweredPatch == resp'.op = "patch"

\* how a supplied value is kept in its column: isPinned as 1/0, insurance and
\* team as JSON text, the other columns as they are
StoredAs(f, j) ==
    IF f = "isPinned" THEN (IF j = JBool(TRUE) THEN 1 ELSE 0)
    ELSE IF f \in {"insurance", "team"} THEN (IF j.t = "null" THEN JNull ELSE Stringify(j))
    ELSE j

AllowedOrAbsent(body, f, allowed) ==
    f \in DOMAIN body => body[f] \in {JStr(a) : a \in allowed}

\* the body names an updatable key and no gender or status outside its list
Applicable(body) ==
    /\ PatchFields \cap DOMAIN body # {}
    /\ AllowedOrAbsent(body, "gender", ALLOWED_GENDER)
    /\ AllowedOrAbsent(body, "status", ALLOWED_STATUS)

OtherRowsSame(k) ==
    /\ Len(patients') = Len(patients)
    /\ \A i \in 1..Len(patients) : KeyOf(patients[i]) # k => patients'[i] = patients[i]

\* C8: a PATCH of a stored record sets every updatable key present in the
\* body to the supplied value, null and false included, and leaves every
\* other column as it was (metadata: createdAt and createdBy).
C8_PatchAppliesPresentKeys ==
    [][AnsweredPatch =>
        \A k \in WritesKeys, b \in WritesPatchBodies :
            (HasRow(patients, k) /\ Applicable(b) /\ PatchPatient(k, b, JUndef, TRUE)) =>
                /\ SameCreated(k)
                /\ \A f \in PatchFields \cap DOMAIN b :
                        RowOf(patients', k)[f] = StoredAs(f, b[f])
                /\ \A c \in DOMAIN RowOf(patients, k) \ (DOMAIN b \cup {"metadata"}) :
                        RowOf(patients', k)[c] = RowOf(patients, k)[c]
                /\ OtherRowsSame(k)]_vars

\* C9: a PATCH whose body names no updatable key, or a gender or status
\* outside its allow-list, is answered 400 and leaves the store as it was,
\* whatever other keys the body carries and whether or not the record exists.
C9_InvalidPatchIs400 ==
    [][AnsweredPatch =>
        \A k \in WritesKeys, b \in WritesPatchBodies :
            (~Applicable(b) /\ PatchPatient(k, b, JUndef, TRUE)) =>
                (resp'.status = 400 /\ patients' = patients)]_vars

\* a PATCH was refused while a record is stored
C9_Witness ==
    /\ resp = [op |-> "patch", status |-> 400]
    /\ Len(patients) = 1

\* C10: a create, PUT or PATCH answered 400, 404, 409 or 415 leaves the
\* store as it was before the request.
C10_RejectedLeavesStore ==
    [][(resp'.op \in {"create", "put", "patch"} /\ resp'.status \in {400, 404, 409, 415})
        => patients' = patients]_vars

\* a PUT of an unknown key was refused while another record is stored
C10_Witness ==
    /\ resp = [op |-> "put", status |-> 404]
    /\ Len(patients) = 1

\* ------------------------------------------------ reading and deleting by key
ReadsMaxRows == 2   \* rows in the table when single reads and deletes are checked

\* the keys a row can have in the running generation: generated and caller-supplied
ReadsKeys == IF version = "spec" THEN {Uuid(1), CallerId(1)} ELSE Uuids

ReadsCreateBodies ==
    IF version = "spec"
    THEN {BaseBody(version), With(BaseBody(version), "patientId", JStr(CallerId(1)))}
    ELSE {BaseBody(version)}

NoQuery == <<>>

ReadsKeyLists == {<<k>> : k \in ReadsKeys} \cup {<<k1, k2>> : k1 \in ReadsKeys, k2 \in ReadsKeys}

InitReads == InitStore({"legacy", "admin", "spec"})

NextReads ==
    \/ \E body \in ReadsCreateBodies : CreatePatient(body, JUndef, TRUE) /\ Within(ReadsMaxRows)
    \/ \E k \in ReadsKeys : DeletePatient(k)
    \/ \E k \in ReadsKeys : GetPatients(k, NoQuery, TRUE, TRUE)
    \/ \E keys \in ReadsKeyLists : BulkDeletePatients(Account(1), keys)

SpecReads == InitReads /\ [][NextReads]_vars

\* the rows other than k's are the same before and after, in the same order
OnlyRemoved(k) ==
    patients' = SelectSeq(patients, LAMBDA row : KeyOf(row) # k)

\* C11: a DELETE of a stored key is answered 204 and removes exactly that
\* record, a DELETE of a key that is not stored is answered 404 and changes
\* nothing, and a GET of a deleted key that has not been created again is
\* answered 404.
C11_DeleteThenGet404 ==
    [][ /\ \A k \in ReadsKeys : DeletePatient(k) =>
               IF HasRow(patients, k)
               THEN resp'.status = 204 /\ ~HasRow(patients', k) /\ OnlyRemoved(k)
               ELSE resp'.status = 404 /\ patients' = patients
        /\ \A k \in ReadsKeys :
               (GetPatients(k, NoQuery, TRUE, TRUE) /\ k \in deleted /\ ~HasRow(patients, k))
                   => resp'.status = 404 ]_vars

\* C12: GET <base>/patients/<key> returns the stored record with that key when
\* one exists and 404 when none exists, for generated and caller-supplied
\* keys, on /api and on /api/v1 (no other handler answers it).
C12_GetAnswersByKey ==
    (resp.op = "get" /\ sent.request.segment \in ReadsKeys) =>
        IF HasRow(patients, sent.request.segment)
        THEN sent.kind = "record" /\ sent.body = sent.request.segment
        ELSE sent.status = 404

\* C13: a bulk delete is answered 200 with one result per listed key, SUCCESS
\* for a key that was stored and NOT_FOUND for one that was not, and no
\* listed key is stored afterwards.
C13_BulkDeleteAnswersPerKey ==
    [][ resp'.op = "bulkdelete" =>
          LET keys == sent'.request.query.patientKeys IN
          /\ resp'.status = 200
          /\ sent'.body = [results |-> [i \in 1..Len(keys) |->
                 [patientKey |-> keys[i],
                  status |-> IF HasRow(patients, keys[i]) THEN "SUCCESS" ELSE "NOT_FOUND"]]]
          /\ \A i \in 1..Len(keys) : ~HasRow(patients', keys[i]) ]_vars

\* ------------------------------------------------------ lists and searches
ListMaxRows == 2    \* rows in the table when lists and searches are checked

Ann == JText(<<"A", "n", "n">>)
Lee == JText(<<"L", "e", "e">>)
Bob == JText(<<"B", "o", "b">>)
Kim == JText(<<"K", "i", "m">>)

\* two patients each generation's create accepts
ListCreateBodies ==
    CASE version = "admin" ->
           { [firstName |-> Ann, lastName |-> Lee, insurance |-> MockIns,
              email |-> JText(<<"a", "@", "b", ".", "i", "o">>)],
             [firstName |-> Bob, lastName |-> Kim, insurance |-> MockIns,
              isPinned |-> JBool(TRUE), status |-> JStr("DISCHARGED")] }
      [] version = "spec" ->
           { [patientId |-> JStr(CallerId(1)), firstName |-> Ann, lastName |-> Lee,
              insurance |-> MockIns, email |-> JText(<<"a", "@", "b", ".", "i", "o">>)],
             [patientId |-> JStr(CallerId(2)), firstName |-> Bob, lastName |-> Kim,
              insurance |-> MockIns, isPinned |-> JBool(TRUE), status |-> JStr("DISCHARGED")] }
      [] OTHER ->
           { [firstName |-> Ann, lastName |-> Lee, patientId |-> JText(<<"A", "B">>),
              teamName |-> JText(<<"L", "i", "m", "a">>), dateOfBirth |-> JStr("1970-01-01")],
             [firstName |-> Bob, lastName |-> Kim, patientId |-> JText(<<"A", "A">>),
              teamName |-> JText(<<"K", "i", "l", "o">>), dateOfBirth |-> JStr("1970-01-01")] }

\* every request names its account
SoldTo == [soldTo |-> <<"A">>]

\* the page of a request: numbers, fractions, zero, negatives, words, too large
PagingQueries ==
    {SoldTo}
    \cup {[soldTo |-> <<"A">>, pageNo |-> n, pageSize |-> z] :
             n \in {"1", "2", "3", "1.5", "0", "abc"}, z \in {"1", "2"}}
    \cup {[soldTo |-> <<"A">>, pageSize |-> z] : z \in {"1.5", "0", "-1", "26", "101", "abc"}}

\* sort columns under the default direction, directions under a column that
\* the running generation registers; a request may carry both spellings of
\* the direction parameter
SortFields ==
    {"LAST_NAME", "FIRST_NAME", "TEAM", "ADDRESS", "PATIENT_ID", "PatientName",
     "firstName", "lastName", "patientId", "team", "dateOfBirth", "id; DROP TABLE patients"}
SortDirections == {"asc", "desc", "ASC", "DESC", "Desc", "down"}

SortQueries ==
    {[soldTo |-> <<"A">>, sortBy |-> f] : f \in SortFields}
    \cup {[soldTo |-> <<"A">>, sortBy |-> f, sortMethod |-> d, sortDir |-> d] :
             f \in {"LAST_NAME", "lastName"}, d \in SortDirections}
    \cup {[soldTo |-> <<"A">>, sortMethod |-> d, sortDir |-> d] : d \in {"DESC", "desc"}}

\* free text: inside one field, across two fields, wildcards, blanks, no match
TextQueries ==
    {[soldTo |-> <<"A">>, q |-> cs] :
        cs \in { <<"a", "n">>, <<"L", "E", "E">>, <<"n", " ", "l">>, <<"%">>, <<"_">>,
                 <<" ">>, <<" ", "k", "i", " ">>, <<"@", "b">>, <<"l", "i", "m">>, <<"o", "o">> }}

PinnedQueries == {[soldTo |-> <<"A">>, isPinned |-> w] : w \in {"true", "TRUE", "false"}}

StatusQueries == {[soldTo |-> <<"A">>, status |-> w] : w \in {"ACTIVE", "DISCHARGED"}}

ListQueries ==
    PagingQueries \cup SortQueries \cup TextQueries \cup PinnedQueries \cup StatusQueries

\* the path segment under which the running generation searches
SearchSegment == IF version = "admin" THEN SearchWord ELSE Account(1)

InitList == InitStore({"legacy", "admin", "spec"})

NextList ==
    \/ \E body \in ListCreateBodies : CreatePatient(body, JUndef, TRUE) /\ Within(ListMaxRows)
    \/ \E query \in ListQueries : ListPatients(query)
    \/ \E query \in ListQueries : GetPatients(SearchSegment, query, TRUE, TRUE)

SpecList == InitList /\ [][NextList]_vars

\* what a page response reports, whatever its field names
IsPage == sent.kind = "page"
IsSearch == resp.op = "get" /\ sent.request.segment = SearchSegment
IsList == resp.op = "list"
Asked(p) == p \in DOMAIN sent.request.query
Items(body) == IF "data" \in DOMAIN body THEN body.data ELSE body.patients
Total(body) ==
    IF "pagination" \in DOMAIN body THEN body.pagination.totalRecords
    ELSE IF "totalCount" \in DOMAIN body THEN body.totalCount ELSE body.totalRecords
PageNoOf(body) == IF "pagination" \in DOMAIN body THEN body.pagination.pageNo ELSE body.pageNo
ReportsPagesCount(body) == "pagination" \in DOMAIN body \/ "pagesCount" \in DOMAIN body
PagesCountOf(body) ==
    IF "pagination" \in DOMAIN body THEN body.pagination.totalPages ELSE body.pagesCount

\* n is the least whole number of pages of pageSizeH halves that hold total records
IsCeiling(n, total, pageSizeH) ==
    /\ n >= 0 /\ n * pageSizeH >= 2 * total
    /\ (n > 0 => (n - 1) * pageSizeH < 2 * total)

\* C14 (as claimed): every list or search response reports pagesCount
\* (totalPages), equal to ceil(totalRecords / pageSize) for the effective
\* pageSize, and 0 with no items when totalRecords is 0.
C14_EveryPageReportsPagesCount ==
    IsPage =>
        /\ ReportsPagesCount(sent.body)
        /\ IsCeiling(PagesCountOf(sent.body), Total(sent.body), sent.sql.limit)
        /\ Total(sent.body) = 0 => (PagesCountOf(sent.body) = 0 /\ Items(sent.body) = <<>>)

\* C14 (amended): every list or search response that reports pagesCount
\* (totalPages) reports ceil(totalRecords / pageSize) for the effective
\* pageSize, 0 when totalRecords is 0; every response has no items when
\* totalRecords is 0.
C14_PagesCountIsCeiling ==
    IsPage =>
        /\ ReportsPagesCount(sent.body) =>
               IsCeiling(PagesCountOf(sent.body), Total(sent.body), sent.sql.limit)
        /\ Total(sent.body) = 0 =>
               /\ Items(sent.body) = <<>>
               /\ ReportsPagesCount(sent.body) => PagesCountOf(sent.body) = 0

\* one record on pages of two: the quotient 1/2 is rounded up to one page
C14_Witness ==
    /\ IsPage /\ ReportsPagesCount(sent.body)
    /\ Total(sent.body) = 1 /\ sent.sql.limit = Whole(2) /\ PagesCountOf(sent.body) = 1

\* the answer to the last request had it asked for page p
PageParam(p) == CASE p = 1 -> "1" [] p = 2 -> "2" [] p = 3 -> "3" [] p = 4 -> "4"
AnswerForPage(p) ==
    LET query == With(sent.request.query, "pageNo", PageParam(p)) IN
    IF sent.request.segment = <<>> THEN GetList(version, patients, query)
    ELSE GetSegment(version, patients, sent.request.segment, query, TRUE, TRUE)

RECURSIVE PagesUpTo(_)
PagesUpTo(p) == IF p = 0 THEN <<>> ELSE PagesUpTo(p - 1) \o Items(AnswerForPage(p).body)

\* C15: with the store unchanged, under the filter and the effective pageSize
\* of any answered request, pages 1..pagesCount hold totalRecords items in
\* all, no record twice, and the page after the last is empty.
C15_PagesPartitionTheMatches ==
    IsPage =>
        LET pages == CHOOSE n \in 0..Total(sent.body) :
                         IsCeiling(n, Total(sent.body), sent.sql.limit)
            all == PagesUpTo(pages) IN
        /\ \A p \in 1..(pages + 1) : AnswerForPage(p).kind = "page"
        /\ Len(all) = Total(sent.body)
        /\ \A i, j \in 1..Len(all) : all[i] = all[j] => i = j
        /\ \A i \in 1..Len(all) : HasRow(patients, all[i])
        /\ Items(AnswerForPage(pages + 1).body) = <<>>

\* the second of two pages of one record each
C15_Witness ==
    /\ IsPage /\ Total(sent.body) = 2 /\ sent.sql.limit = Whole(1)
    /\ Asked("pageNo") /\ sent.request.query.pageNo = "2"
    /\ Len(Items(sent.body)) = 1
    /\ Items(sent.body) # Items(AnswerForPage(1).body)

\* the sortBy values each endpoint registers (none where nothing is sorted)
Registered ==
    IF IsSearch THEN (IF version = "legacy" THEN ALLOWED_SORT_FIELDS
                      ELSE ALLOWED_SORT_FIELDS_V2(version))
    ELSE IF version = "legacy" THEN {} ELSE AllowedSort

FixedColumns ==
    {"firstName", "lastName", "patientId", "teamName", "dateOfBirth", "admissionDate",
     "id", "team", "address"}

AskedDirection == IF Asked("sortMethod") THEN sent.request.query.sortMethod ELSE ""

SearchColumn(sortBy) ==
    CASE sortBy = "LAST_NAME" -> "lastName" [] sortBy = "FIRST_NAME" -> "firstName"
      [] sortBy = "TEAM" -> "team" [] sortBy = "ADDRESS" -> "address"
      [] sortBy = "PATIENT_ID" -> "id"

\* C17: the /api/v1 search accepts a sortBy exactly when it is LAST_NAME,
\* FIRST_NAME, TEAM, ADDRESS or PATIENT_ID, and orders by that value's
\* column (lastName, firstName, team, address, id) in the direction asked.
C17_SearchSortByAllowList ==
    (IsSearch /\ version # "legacy" /\ Asked("sortBy")
        /\ AskedDirection \in {"", "ASC", "DESC"}) =>
        IF sent.request.query.sortBy \in {"LAST_NAME", "FIRST_NAME", "TEAM", "ADDRESS", "PATIENT_ID"}
        THEN /\ IsPage
             /\ sent.sql.orderBy = << SearchColumn(sent.request.query.sortBy),
                                      IF AskedDirection = "DESC" THEN "DESC" ELSE "ASC" >>
        ELSE sent.status = 400

\* the largest page each route set serves
PageMax == IF version = "legacy" THEN LegacyPageMax ELSE V1PageMax

\* the parameter is sent and is no number, or a number below 1
NotFromOne(p) ==
    Asked(p) /\ (Number(sent.request.query[p]).t = "nan"
                  \/ Number(sent.request.query[p]).h < Whole(1))

\* the parameter is sent and is a number above the largest page
AboveMax(p) ==
    Asked(p) /\ Number(sent.request.query[p]).t = "number"
             /\ Number(sent.request.query[p]).h > Whole(PageMax)

\* a direction word read without case
MeansDescending(d) == d \in {"desc", "DESC", "Desc"}
Sorts == IsSearch \/ (IsList /\ version # "legacy")
SortByTaken == ~Asked("sortBy") \/ sent.request.query.sortBy \in Registered
PagingTaken == ~NotFromOne("pageNo") /\ ~NotFromOne("pageSize") /\ ~AboveMax("pageSize")

\* C18 (as claimed): every endpoint that sorts reads the direction without
\* case, takes ascending when it is absent or any other word, and never
\* rejects a request for its direction.
C18_DirectionLenientEverywhere ==
    (Sorts /\ SortByTaken /\ PagingTaken) =>
        /\ sent.status # 400
        /\ IsPage =>
              sent.sql.orderBy[2] = (IF MeansDescending(AskedDirection) THEN "DESC" ELSE "ASC")

\* C18 (amended): the lenient endpoints that sort (GET /api/patients/:shipToId
\* by sortDir, GET /api/v1/patients by sortMethod) read the direction without
\* case, take ascending when it is absent or any other word and never reject
\* it; the strict /api/v1 searches accept sortMethod only when it is absent
\* or exactly ASC or DESC and answer 400 to any other value.
C18_DirectionLenientOrExact ==
    /\ (Sorts /\ SortByTaken /\ (IsList \/ version = "legacy")) =>
          /\ sent.status # 400
          /\ IsPage =>
                sent.sql.orderBy[2] = (IF MeansDescending(AskedDirection) THEN "DESC" ELSE "ASC")
    /\ (IsSearch /\ version # "legacy") =>
          /\ AskedDirection \notin {"", "ASC", "DESC"} => sent.status = 400
          /\ (AskedDirection \in {"", "ASC", "DESC"} /\ SortByTaken /\ PagingTaken) =>
                sent.status # 400

\* lower-case desc sorts the lenient list downwards
C18_Witness ==
    /\ IsList /\ IsPage /\ AskedDirection = "desc" /\ Len(patients) = 2
    /\ sent.sql.orderBy = <<"lastName", "DESC">>
    /\ Items(sent.body) = <<KeyOf(patients[1]), KeyOf(patients[2])>>
    /\ patients[1].lastName = Lee /\ patients[2].lastName = Kim

\* C19: every list or search that is answered with a page has a whole
\* pageNo >= 1, a whole pageSize in 1..max (25 on /api, 100 on /api/v1) and
\* a whole OFFSET >= 0; the strict searches answer 400 to a pageNo or
\* pageSize that is no number or out of range.
C19_PagingIsWhole ==
    (IsSearch \/ IsList) =>
        /\ IsPage =>
              /\ IsWhole(PageNoOf(sent.body)) /\ PageNoOf(sent.body) >= Whole(1)
              /\ IsWhole(sent.sql.limit)
              /\ sent.sql.limit >= Whole(1) /\ sent.sql.limit <= Whole(PageMax)
              /\ sent.sql.offset % 4 = 0 /\ sent.sql.offset >= 0
        /\ (IsSearch /\ version # "legacy"
              /\ (NotFromOne("pageNo") \/ NotFromOne("pageSize") \/ AboveMax("pageSize")))
              => sent.status = 400

\* sub occurs in text
Contains(text, sub) ==
    \E i \in 0..(Len(text) - Len(sub)) : SubSeq(text, i + 1, i + Len(sub)) = sub

\* the lower-cased q is inside one of the row's searchable fields
InOneField(row, q) ==
    \E c \in {"firstName", "lastName", "guid", "patientId", "email"} :
        Col(row, c).t # "null" /\ Contains(Lower(Col(row, c).cs), Lower(q))

\* C20: with a non-empty q a list or search returns and counts exactly the
\* records that hold the lower-cased q inside one of their searchable
\* fields; with an empty or blank q it counts every record.
C20_QMatchesOneField ==
    (IsPage /\ (IsSearch \/ IsList) /\ ~Asked("isPinned") /\ ~Asked("pageNo") /\ ~Asked("pageSize")) =>
        LET q == IF Asked("q") THEN Trim(sent.request.query.q) ELSE <<>>
            found == {Items(sent.body)[i] : i \in 1..Len(Items(sent.body))} IN
        IF q = <<>> THEN Total(sent.body) = Len(patients)
        ELSE /\ found = {KeyOf(patients[i]) : i \in {j \in 1..Len(patients) : InOneField(patients[j], q)}}
             /\ Total(sent.body) = Cardinality({j \in 1..Len(patients) : InOneField(patients[j], q)})

\* the row passes the exact filters the last request carried
PassesFilters(row) ==
    /\ Asked("status") => row.status = JStr(sent.request.query.status)
    /\ Asked("isPinned") => row.isPinned = (IF sent.request.query.isPinned = "true" THEN 1 ELSE 0)

\* C21: the /api/v1 list returns and counts exactly the records that pass
\* every exact filter sent: status=S keeps the records whose status is S,
\* isPinned=true the pinned ones, isPinned=false the unpinned ones.
C21_ListAppliesExactFilters ==
    (IsList /\ IsPage /\ version # "legacy"
        /\ ~Asked("q") /\ ~Asked("pageNo") /\ ~Asked("pageSize")
        /\ (Asked("isPinned") => sent.request.query.isPinned \in {"true", "false"})) =>
        LET passing == {j \in 1..Len(patients) : PassesFilters(patients[j])} IN
        /\ {Items(sent.body)[i] : i \in 1..Len(Items(sent.body))}
               = {KeyOf(patients[j]) : j \in passing}
        /\ Total(sent.body) = Cardinality(passing)

\* C30: a create that passes validation gets exactly one response, and a
\* record is stored if and only if that response is 201.
C30_StoredIffAnswered201 ==
    [][(resp'.op = "create" /\ resp'.status \notin {400, 415}) =>
          /\ resp'.status # NoResponse
          /\ (resp'.status = 201) <=> (Len(patients') = Len(patients) + 1)
          /\ resp'.status # 201 => patients' = patients]_vars

\* ------------------------------------------------ payer and team shapes
ProjectMaxRows == 1

ProjectKeys == {CallerId(1), CallerId(2)}

PlanPayer == JObj([planName |-> JStr("GoldPlan"), planId |-> JStr("G1"),
                   payerTypeName |-> JStr("Medicare")])
ShapedIns == JObj([payerId |-> JStr("p7"), payerType |-> JStr("Commercial"),
                   displayName |-> JStr("Aetna")])
BlueTeam == JObj([teamId |-> JStr("t9"), name |-> JStr("Blue")])
GreenTeam == JObj([name |-> JStr("Green")])

Person == [firstName |-> JStr("Test"), lastName |-> JStr("Patient")]

\* the insurance shape, the payer shape, both, a payer type alone, an
\* insurance that is no object; a team as a string and as an object
ProjectBodies ==
    << With(Person, "insurance", MockIns),
      With(Person, "payer", PlanPayer),
      With(With(Person, "insurance", MockIns), "payer", PlanPayer),
      With(Person, "insurance", ShapedIns),
      With(Person, "payer", JStr("Medicare")),
      With(Person, "insurance", JStr("Acme")),
      With(With(Person, "insurance", MockIns), "team", JStr("Red")),
      With(With(Person, "payer", PlanPayer), "team", BlueTeam),
      With(With(Person, "insurance", MockIns), "team", GreenTeam) >>

CreateBody(i, k) == With(ProjectBodies[i], "patientId", JStr(k))

\* PUT: the payer shape, a payer type alone, a team as a string and as an object
ProjectPutBodies ==
    << With(Person, "payer", PlanPayer),
       With(Person, "payer", JStr("Medicare")),
       With(With(Person, "insurance", MockIns), "team", JStr("Red")),
       With(With(Person, "payer", PlanPayer), "team", BlueTeam) >>

ProjectPatchBodies ==
    << [team |-> JStr("Red")], [team |-> BlueTeam], [team |-> GreenTeam], [team |-> JNull],
       [insurance |-> MockIns], [insurance |-> JNull],
       [payer |-> JStr("Medicaid")], [payer |-> JNull] >>

InitProject == InitStore({"spec"})

NextProject ==
    \/ \E k \in ProjectKeys, i \in DOMAIN ProjectBodies :
            CreatePatient(CreateBody(i, k), JUndef, TRUE) /\ Within(ProjectMaxRows)
    \/ \E k \in ProjectKeys, i \in DOMAIN ProjectPutBodies :
            PutPatient(k, ProjectPutBodies[i], JUndef, TRUE)
    \/ \E k \in ProjectKeys, i \in DOMAIN ProjectPatchBodies :
            PatchPatient(k, ProjectPatchBodies[i], JUndef, TRUE)

SpecProject == InitProject /\ [][NextProject]_vars

\* the step is the create, the PUT or the PATCH of body b taking effect on k
Created(b, k) ==
    /\ resp'.op = "create" /\ ~HasRow(patients, k) /\ HasRow(patients', k)
    /\ patients' = CreateOutcome(b, JUndef, TRUE).store
Replaced(b, k) ==
    /\ resp'.op = "put" /\ HasRow(patients, k) /\ ~SpecPutInvalid(b)
    /\ patients' = SpecPutOutcome(patients, k, b, JUndef, now, TRUE).store
Patched(b, k) ==
    /\ resp'.op = "patch" /\ HasRow(patients, k) /\ ~PatchInvalid(b)
    /\ patients' = PatchOutcome(patients, k, b, JUndef, now, TRUE).store

\* the provider or plan names a body supplies
SuppliedNames(b) ==
    {Prop(Get(b, "insurance"), "providerName"), Prop(Get(b, "payer"), "planName")} \ {JUndef}

\* the body has the insurance shape {providerName, ...} or the payer shape {planName, ...}
NamesAPayer(b) ==
    /\ SuppliedNames(b) # {}
    /\ Get(b, "insurance").t \in {"undefined", "object"}
    /\ Prop(Get(b, "insurance"), "displayName") = JUndef

\* C22: a patient created with an insurance object {providerName, ...} or a
\* payer object {planName, ...} projects, as a list item, a non-null
\* primaryPayer whose displayName is the supplied providerName / planName.
C22_CreateKeepsPayerName ==
    [][\A k \in ProjectKeys, i \in DOMAIN ProjectBodies :
          (NamesAPayer(ProjectBodies[i]) /\ Created(CreateBody(i, k), k)) =>
              LET primaryPayer == rowToPatientListItem(RowOf(patients', k)).primaryPayer IN
              /\ primaryPayer # JNull
              /\ primaryPayer.v.displayName \in SuppliedNames(ProjectBodies[i])]_vars

\* a record created from the payer shape alone is stored and projects the plan name
C22_Witness ==
    \E i \in 1..Len(patients) :
        /\ resp = [op |-> "create", status |-> NoResponse]
        /\ patients[i].payer = JStr("Medicare")
        /\ rowToPatientListItem(patients[i]).primaryPayer.v.displayName = JStr("GoldPlan")

HasInsurance(row) == row.insurance # JNull
HasPayerType(row) == Truthy(row.payer)

\* C23: of every stored record, the list-item projection's primaryPayer is
\* non-null whenever the record has an insurance value, and null whenever it
\* has neither an insurance value nor a payer type.
C23_PayerFollowsInsurance ==
    \A i \in 1..Len(patients) :
        /\ HasInsurance(patients[i]) => rowToPatientListItem(patients[i]).primaryPayer # JNull
        /\ (~HasInsurance(patients[i]) /\ ~HasPayerType(patients[i])) =>
               rowToPatientListItem(patients[i]).primaryPayer = JNull

\* C23, amended: the primaryPayer is non-null whenever the record's insurance
\* value is an object, and null whenever the record has neither an insurance
\* value nor a payer type.
C23_PayerFollowsInsuranceObject ==
    \A i \in 1..Len(patients) :
        /\ (HasInsurance(patients[i]) /\ Parse(patients[i].insurance).t = "object") =>
               rowToPatientListItem(patients[i]).primaryPayer # JNull
        /\ (~HasInsurance(patients[i]) /\ ~HasPayerType(patients[i])) =>
               rowToPatientListItem(patients[i]).primaryPayer = JNull

\* a PATCH has taken the insurance off a record without payer type: the
\* record, which projected a payer from its insurance object, projects none
C23_Witness ==
    /\ resp.op = "patch"
    /\ \E i \in 1..Len(patients) :
           /\ ~HasInsurance(patients[i]) /\ ~HasPayerType(patients[i])
           /\ rowToPatientListItem(patients[i]).primaryPayer = JNull

\* the team name a body supplies: the bare string, or the object's name
SuppliedTeam(b) == IF Get(b, "team").t = "string" THEN Get(b, "team") ELSE Prop(Get(b, "team"), "name")

\* the stored record k reads back as a team {teamId, name} with that name
ReadsBackTeam(b, k) ==
    LET team == rowToPatientListItem(RowOf(patients', k)).team IN
    /\ team.t = "object"
    /\ DOMAIN team.v = {"teamId", "name"}
    /\ team.v.name = SuppliedTeam(b)
    /\ Truthy(team.v.teamId)

\* C24: a team supplied as a bare string or as an object on create, PUT or
\* PATCH is read back through the list-item projection as {teamId, name} with
\* the supplied team name and a non-empty teamId.
C24_TeamReadsBackNormalized ==
    [][\A k \in ProjectKeys :
          /\ \A i \in DOMAIN ProjectBodies :
                LET b == ProjectBodies[i] IN
                (Truthy(Get(b, "team")) /\ Created(CreateBody(i, k), k)) => ReadsBackTeam(b, k)
          /\ \A i \in DOMAIN ProjectPutBodies :
                LET b == ProjectPutBodies[i] IN
                (Truthy(Get(b, "team")) /\ Replaced(b, k)) => ReadsBackTeam(b, k)
          /\ \A i \in DOMAIN ProjectPatchBodies :
                LET b == ProjectPatchBodies[i] IN
                (Truthy(Get(b, "team")) /\ Patched(b, k)) => ReadsBackTeam(b, k)]_vars

\* ------------------------------------------------- defaults and status values
StatusMaxRows == 1

StatusKeys == IF version = "spec" THEN {CallerId(1), CallerId(2)} ELSE Uuids

\* no status and no isPinned, both supplied, a status outside the allow-list
StatusBodies ==
    { BaseBody(version),
      With(With(BaseBody(version), "status", JStr("DISCHARGED")), "isPinned", JBool(TRUE)),
      With(BaseBody(version), "status", JStr("BOGUS")) }

StatusCreateBodies ==
    IF version = "spec"
    THEN {With(b, "patientId", JStr(k)) : b \in StatusBodies, k \in StatusKeys}
    ELSE StatusBodies

StatusPatchBodies ==
    { [status |-> JStr("PENDING")], [status |-> JStr("BOGUS")], [status |-> JNull],
      [status |-> JStr("DISCHARGED"), isPinned |-> JBool(FALSE)] }

InitStatus == InitStore({"legacy", "admin", "spec"})

NextStatus ==
    \/ \E b \in StatusCreateBodies, u \in Users :
            CreatePatient(b, u, TRUE) /\ Within(StatusMaxRows)
    \/ \E k \in StatusKeys, b \in StatusBodies : PutPatient(k, b, JUndef, TRUE)
    \/ \E k \in StatusKeys, b \in StatusPatchBodies : PatchPatient(k, b, JUndef, TRUE)
    \/ Tick

SpecStatus == InitStatus /\ [][NextStatus]_vars

\* the create stored a record
Stored == resp'.op = "create" /\ Len(patients') = Len(patients) + 1
NewRow == patients'[Len(patients')]

\* the X-User identity, or "system"
Identity(u) == IF u = JUndef THEN "system" ELSE u.v

\* status ACTIVE and isPinned false unless supplied
DefaultsTaken(b) ==
    /\ "status" \in DOMAIN NewRow /\ "isPinned" \in DOMAIN NewRow
    /\ "status" \notin DOMAIN b => NewRow.status = JStr("ACTIVE")
    /\ "isPinned" \notin DOMAIN b => NewRow.isPinned = 0

\* metadata {createdAt = updatedAt = now, createdBy = updatedBy = identity}
StampedBy(u) ==
    ExistingMeta(NewRow) = [createdAt |-> now, createdBy |-> Identity(u),
                            updatedAt |-> now, updatedBy |-> Identity(u)]

C26_StatusFromAllowList ==
    \A i \in 1..Len(patients) :
        "status" \in DOMAIN patients[i] => Includes(ALLOWED_STATUS, patients[i].status)

\* ------------------------------------------------------ overlapping requests
RaceKey == IF version = "spec" THEN CallerId(1) ELSE Uuid(1)

RaceBody ==
    IF version = "spec"
    THEN With(With(BaseBody("spec"), "dateOfBirth", JStr("1970-01-01")), "patientId", JStr(CallerId(1)))
    ELSE With(BaseBody("admin"), "dateOfBirth", JStr("1970-01-01"))

\* the requests that can be in flight; the PUT comes from another caller
RaceRequests ==
    << [op |-> "create", xUser |-> JUndef, body |-> RaceBody],
       [op |-> "put", xUser |-> JStr("alice"), body |-> With(BaseBody(version), "firstName", JStr("Other"))],
       [op |-> "patch", xUser |-> JUndef, body |-> [isPinned |-> JBool(TRUE)]],
       [op |-> "patch", xUser |-> JUndef, body |-> [status |-> JStr("DISCHARGED")]],
       [op |-> "pin", xUser |-> JUndef, body |-> [isPinned |-> JBool(TRUE)]],
       [op |-> "delete", xUser |-> JUndef, body |-> << >>] >>

InitRace == InitStore({"admin", "spec"})

NextRace ==
    \/ \E r \in Requests, i \in DOMAIN RaceRequests :
            /\ Begin(r, RaceRequests[i].op, RaceKey, RaceRequests[i].body, RaceRequests[i].xUser)
            /\ issued' <= MaxUuid
    \/ \E r \in Requests : CreateCheck(r)
    \/ \E r \in Requests : CreateInsert(r)
    \/ \E r \in Requests : PutWrite(r)
    \/ \E r \in Requests : ReadMetadata(r)
    \/ \E r \in Requests : PatchWrite(r)
    \/ \E r \in Requests : Reread(r)
    \/ \E r \in Requests : PinWrite(r)
    \/ \E r \in Requests : DeleteRun(r)
    \/ Settle

SpecRace == InitRace /\ [][NextRace]_vars

\* both requests are of these kinds and in flight together
Overlap(ops1, ops2) ==
    /\ Active = Requests
    /\ \/ flight["a"].op \in ops1 /\ flight["b"].op \in ops2
       \/ flight["b"].op \in ops1 /\ flight["a"].op \in ops2

\* the request has run every statement that writes
Effected(r) == flight[r].pc = "done" \/ (flight[r].pc = "lost" /\ flight[r].changed)

\* the whole request run on its own against a store, with the clock value and
\* the caller it ran with
Alone(r, store) ==
    LET q == flight[r] IN
    CASE q.op = "patch" -> PatchOutcome(store, q.key, q.body, q.xUser, q.t, TRUE).store
      [] q.op = "put" /\ version = "admin" -> AdminPutOutcome(store, q.key, q.body, q.xUser, q.t, TRUE).store
      [] q.op = "put" /\ version = "spec" -> SpecPutOutcome(store, q.key, q.body, q.xUser, q.t, TRUE).store
      [] OTHER -> store

\* C27: two PATCH/PUT requests on one key in flight together leave, in every
\* interleaving of their store statements, the record one of the two serial
\* orders leaves.
C27_WritesSerialize ==
    (Overlap({"patch", "put"}, {"patch", "put"}) /\ \A r \in Requests : Effected(r)) =>
        \/ patients = Alone("b", Alone("a", Base))
        \/ patients = Alone("a", Alone("b", Base))

\* the DELETE, and the PATCH or pin it overlaps with
Deleting == CHOOSE r \in Requests : flight[r].op = "delete"
Updating == CHOOSE r \in Requests : flight[r].op \in {"patch", "pin"}

\* C28: when a DELETE of a key overlaps a PATCH or a pin of that key, the
\* record is never re-created, and the PATCH or pin is answered 200 only if
\* its UPDATE changed a stored record (the PATCH carrying the updated record)
\* and 404 otherwise.
C28_DeleteWinsCleanly ==
    Overlap({"delete"}, {"patch", "pin"}) =>
        LET d == flight[Deleting]
            u == flight[Updating] IN
        /\ (d.status = 204) => ~HasRow(patients, d.key)
        /\ (u.pc = "done" /\ u.status = 200) => u.changed
        /\ (u.pc = "done" /\ u.status = 200 /\ u.op = "patch") => u.carried # JNull
        /\ (u.pc = "done" /\ ~u.changed) => u.status = 404

\* C29: of two conflicting creates in flight together (the same key, or the
\* same name and date of birth where those are checked), met by a store with
\* no such record, exactly one is answered 201 and stored and the other is
\* answered 409: never two stored records, never a 500.
C29_OneCreateWins ==
    (/\ Overlap({"create"}, {"create"})
     /\ \A r \in Requests : Finished(r)
     /\ Len(Base) = 0) =>
        /\ Len(patients) = 1
        /\ {flight[r].status : r \in Requests} = {201, 409}

====
